---- MODULE Spec2Model ----
(***************************************************************************)
(* Citation graph of bsm-x/us-laws: the ingestion script                   *)
(* scripts/processing/build_citation_graph.py, the query module            *)
(* app/citations.py and the HTTP router app/routers/citations.py.          *)
(*                                                                         *)
(* Strings that the code takes apart (section texts, section numbers,       *)
(* titles, identifiers, matched phrases) are sequences of one-character    *)
(* strings; the two literal pieces of the identifier f-string,             *)
(* "/us/usc/t" and "/s", and a character outside ASCII are kept as single  *)
(* elements.  The citation_text of rows that are written down directly,    *)
(* as the edges of a graph, is only ever copied and is an atomic string.   *)
(***************************************************************************)
EXTENDS Integers, Sequences, FiniteSets, TLC

VARIABLES
    corpus,      \* the XML files under USCODE_DIR, in sorted order
    dbState,     \* citations.db: "absent", "no_table" (file, no table yet), "ready"
    store,       \* committed rows of table citations, in rowid order
    ing,         \* the ingestion job: position, all_citations, open transaction
    runs,        \* ingestion runs completed so far
    prevRun,     \* history: input and resulting rows of the run before the last
    lastRun,     \* history: input and resulting rows of the last completed run
    req          \* the query in flight: arguments, position, locals, outcome

vars == <<corpus, dbState, store, ing, runs, prevRun, lastRun, req>>

ingVars == <<corpus, dbState, store, ing, runs, prevRun, lastRun>>

----------------------------------------------------------------------------
(* Bounds *)

MaxRuns == 2
MaxDepthArg == 3

----------------------------------------------------------------------------
(* Characters and small sequence helpers *)

Digits == {"0", "1", "2", "3", "4", "5", "6", "7", "8", "9"}

LowerLetters ==
    <<"a", "b", "c", "d", "e", "f", "g", "h", "i", "j", "k", "l", "m",
      "n", "o", "p", "q", "r", "s", "t", "u", "v", "w", "x", "y", "z">>

UpperLetters ==
    <<"A", "B", "C", "D", "E", "F", "G", "H", "I", "J", "K", "L", "M",
      "N", "O", "P", "Q", "R", "S", "T", "U", "V", "W", "X", "Y", "Z">>

Lower  == {LowerLetters[k] : k \in 1..Len(LowerLetters)}
LowerAlnum == Lower \cup Digits

\* \s
Space == {" "}

\* str.lower() and str.upper(), character by character
LowerOf == [c \in {UpperLetters[k] : k \in 1..Len(UpperLetters)} |->
               LowerLetters[CHOOSE k \in 1..Len(UpperLetters) : UpperLetters[k] = c]]

UpperOf == [c \in Lower |->
               UpperLetters[CHOOSE k \in 1..Len(LowerLetters) : LowerLetters[k] = c]]

ToLower(c) == IF c \in DOMAIN LowerOf THEN LowerOf[c] ELSE c

ToUpper(c) == IF c \in DOMAIN UpperOf THEN UpperOf[c] ELSE c

lower(s) == [k \in 1..Len(s) |-> ToLower(s[k])]
upper(s) == [k \in 1..Len(s) |-> ToUpper(s[k])]

\* needle in s
Contains(s, needle) ==
    \E k \in 1..(Len(s) - Len(needle) + 1) :
        SubSeq(s, k, k + Len(needle) - 1) = needle

\* str.strip(): leading and trailing whitespace removed
RECURSIVE lstrip(_)
lstrip(s) == IF s # <<>> /\ Head(s) = " " THEN lstrip(Tail(s)) ELSE s

RECURSIVE rstrip(_)
rstrip(s) ==
    IF s # <<>> /\ s[Len(s)] = " " THEN rstrip(SubSeq(s, 1, Len(s) - 1)) ELSE s

strip(s) == rstrip(lstrip(s))

----------------------------------------------------------------------------
(* normalize_identifier *)

\* [a-z0-9]+\) continued from position j: the index of the closing ")", or 0
RECURSIVE GroupEnd(_, _)
GroupEnd(s, j) ==
    IF j > Len(s) THEN 0
    ELSE IF s[j] \in LowerAlnum THEN GroupEnd(s, j + 1)
    ELSE IF s[j] = ")" THEN j
    ELSE 0

\* a match of \([a-z0-9]+\) starting at position i: index of its last
\* character, or 0 when there is none
GroupMatchAt(s, i) ==
    IF s[i] = "(" /\ i + 1 <= Len(s) /\ s[i + 1] \in LowerAlnum
    THEN GroupEnd(s, i + 2)
    ELSE 0

\* re.sub(r"\([a-z0-9]+\)", "", section), scanning from position i
RECURSIVE re_sub_groups(_, _)
re_sub_groups(s, i) ==
    IF i > Len(s) THEN <<>>
    ELSE LET e == GroupMatchAt(s, i)
         IN  IF e > 0 THEN re_sub_groups(s, e + 1)
             ELSE <<s[i]>> \o re_sub_groups(s, i + 1)

\* f"/us/usc/t{title}/s{section_base}"
FormatIdentifier(title, section_base) ==
    <<"/us/usc/t">> \o title \o <<"/s">> \o section_base

normalize_identifier(title, section) ==
    FormatIdentifier(title, strip(re_sub_groups(section, 1)))

----------------------------------------------------------------------------
(* Regular expressions of PATTERNS, matched the way re matches them:        *)
(* leftmost, greedy, backtracking, under re.IGNORECASE                      *)

\* one character of a class
Chr(set) == [t |-> "chr", set |-> set]

\* the items one after another
Cat(rs) == [t |-> "cat", rs |-> rs]

\* (?:a|b|c)
Alt(rs) == [t |-> "alt", rs |-> rs]

\* greedy repetition: ? is (0, 1), * is (0, -1), + is (1, -1)
Rep(r, min, max) == [t |-> "rep", r |-> r, min |-> min, max |-> max]

Opt(r)  == Rep(r, 0, 1)
Star(r) == Rep(r, 0, -1)
Plus(r) == Rep(r, 1, -1)

\* a literal word
Word(w) == Cat([k \in 1..Len(w) |-> Chr({w[k]})])

\* a character against a class under IGNORECASE
ChrMatches(c, set) == c \in set \/ ToLower(c) \in set \/ ToUpper(c) \in set

\* every position a match of r that starts at i can end before, in the
\* order re tries them
RECURSIVE Ends(_, _, _)
RECURSIVE EndsFrom(_, _, _)
RECURSIVE CatEnds(_, _, _)
RECURSIVE AltEnds(_, _, _)
RECURSIVE RepEnds(_, _, _, _)
RECURSIVE RepMore(_, _, _, _)

Ends(r, s, i) ==
    CASE r.t = "chr" -> IF i <= Len(s) /\ ChrMatches(s[i], r.set) THEN <<i + 1>> ELSE <<>>
      [] r.t = "cat" -> CatEnds(r.rs, s, <<i>>)
      [] r.t = "alt" -> AltEnds(r.rs, s, i)
      [] r.t = "rep" -> RepEnds(r, s, i, 0)

EndsFrom(r, s, starts) ==
    IF starts = <<>> THEN <<>>
    ELSE Ends(r, s, Head(starts)) \o EndsFrom(r, s, Tail(starts))

CatEnds(rs, s, starts) ==
    IF rs = <<>> THEN starts
    ELSE CatEnds(Tail(rs), s, EndsFrom(Head(rs), s, starts))

AltEnds(rs, s, i) ==
    IF rs = <<>> THEN <<>> ELSE Ends(Head(rs), s, i) \o AltEnds(Tail(rs), s, i)

RepEnds(r, s, i, n) ==
    (IF r.max < 0 \/ n < r.max THEN RepMore(r, s, Ends(r.r, s, i), n + 1) ELSE <<>>)
    \o (IF n >= r.min THEN <<i>> ELSE <<>>)

RepMore(r, s, ends, n) ==
    IF ends = <<>> THEN <<>>
    ELSE RepEnds(r, s, Head(ends), n) \o RepMore(r, s, Tail(ends), n)

\* the first match of the parts of a pattern at position i: the position
\* before the match and the position after every part, or <<>>
RECURSIVE FirstMatch(_, _, _)
RECURSIVE TryEnds(_, _, _, _)

FirstMatch(parts, s, i) ==
    IF parts = <<>> THEN <<i>>
    ELSE TryEnds(Ends(Head(parts), s, i), Tail(parts), s, i)

TryEnds(ends, rest, s, i) ==
    IF ends = <<>> THEN <<>>
    ELSE LET m == FirstMatch(rest, s, Head(ends))
         IN  IF m # <<>> THEN <<i>> \o m ELSE TryEnds(Tail(ends), rest, s, i)

\* match.group(0) and match.groups() of a match with boundaries b
MatchOf(pattern, s, b) ==
    [text |-> SubSeq(s, b[1], b[Len(b)] - 1),
     groups |-> [g \in 1..Len(pattern.groups) |->
                    SubSeq(s, b[pattern.groups[g]], b[pattern.groups[g] + 1] - 1)]]

\* the positions of text at which the pattern matches
MatchStarts(pattern, s) ==
    {i \in 1..Len(s) : FirstMatch(pattern.parts, s, i) # <<>>}

\* the matches from position i on, left to right, not overlapping
RECURSIVE MatchesFrom(_, _, _, _)
MatchesFrom(pattern, s, starts, i) ==
    IF \A k \in starts : k < i THEN <<>>
    ELSE LET k == CHOOSE k \in starts : k >= i /\ \A j \in starts : j >= i => k <= j
             b == FirstMatch(pattern.parts, s, k)
         IN  <<MatchOf(pattern, s, b)>>
             \o MatchesFrom(pattern, s, starts, IF b[Len(b)] > k THEN b[Len(b)] ELSE k + 1)

\* pattern.finditer(text)
finditer(pattern, s) == MatchesFrom(pattern, s, MatchStarts(pattern, s), 1)

----------------------------------------------------------------------------
(* PATTERNS and parse_citations *)

\* \d+[a-z]?(?:\([a-z0-9]+\))*
SectionNumber ==
    Cat(<<Plus(Chr(Digits)), Opt(Chr(Lower)),
          Star(Cat(<<Chr({"("}), Plus(Chr(LowerAlnum)), Chr({")"})>>))>>)

\* the two characters the source file holds between U.S.C. and the section
\* number, U+0E22 and U+0E07, each as one element
ThaiYoYak  == "U+0E22"
ThaiNgoNgu == "U+0E07"

W_ection   == <<"e", "c", "t", "i", "o", "n">>
W_of       == <<"o", "f">>
W_itle     == <<"i", "t", "l", "e">>
W_this     == <<"t", "h", "i", "s">>
W_title    == <<"t", "i", "t", "l", "e">>
W_through  == <<"t", "h", "r", "o", "u", "g", "h">>
W_to       == <<"t", "o">>
W_and      == <<"a", "n", "d">>

\* a pattern: the parts of the expression in order, and which parts are
\* capturing groups

\* [Ss]ection\s+(\d+[a-z]?(?:\([a-z0-9]+\))*)\s+of\s+[Tt]itle\s+(\d+)
PatternSectionOfTitle ==
    [parts |-> <<Chr({"S", "s"}), Word(W_ection), Plus(Chr(Space)), SectionNumber,
                 Plus(Chr(Space)), Word(W_of), Plus(Chr(Space)),
                 Chr({"T", "t"}), Word(W_itle), Plus(Chr(Space)), Plus(Chr(Digits))>>,
     groups |-> <<4, 11>>]

\* (\d+)\s+U\.?S\.?C\.?\s*<U+0E22><U+0E07>?\s*(\d+[a-z]?(?:\([a-z0-9]+\))*)
PatternUSC ==
    [parts |-> <<Plus(Chr(Digits)), Plus(Chr(Space)),
                 Chr({"U"}), Opt(Chr({"."})), Chr({"S"}), Opt(Chr({"."})),
                 Chr({"C"}), Opt(Chr({"."})), Star(Chr(Space)),
                 Chr({ThaiYoYak}), Opt(Chr({ThaiNgoNgu})), Star(Chr(Space)),
                 SectionNumber>>,
     groups |-> <<1, 13>>]

\* [Tt]itle\s+(\d+),?\s+[Ss]ection\s+(\d+[a-z]?(?:\([a-z0-9]+\))*)
PatternTitleSection ==
    [parts |-> <<Chr({"T", "t"}), Word(W_itle), Plus(Chr(Space)), Plus(Chr(Digits)),
                 Opt(Chr({","})), Plus(Chr(Space)),
                 Chr({"S", "s"}), Word(W_ection), Plus(Chr(Space)), SectionNumber>>,
     groups |-> <<4, 10>>]

\* the range pattern with its group around the last number of the range
PatternRange_last ==
    [parts |-> <<Chr({"S", "s"}), Word(W_ection), Opt(Chr({"s"})), Plus(Chr(Space)),
                 Cat(<<Plus(Chr(Digits)), Opt(Chr(Lower))>>), Plus(Chr(Space)),
                 Alt(<<Word(W_through), Word(W_to), Word(W_and)>>), Plus(Chr(Space)),
                 Cat(<<Plus(Chr(Digits)), Opt(Chr(Lower))>>), Plus(Chr(Space)),
                 Word(W_of), Plus(Chr(Space)), Word(W_this), Plus(Chr(Space)),
                 Word(W_title)>>,
     groups |-> <<9>>]

\* [Ss]ections?\s+(\d+[a-z]?)\s+(?:through|to|and)\s+\d+[a-z]?\s+of\s+this\s+title
PatternRange ==
    [parts |-> <<Chr({"S", "s"}), Word(W_ection), Opt(Chr({"s"})), Plus(Chr(Space)),
                 Cat(<<Plus(Chr(Digits)), Opt(Chr(Lower))>>), Plus(Chr(Space)),
                 Alt(<<Word(W_through), Word(W_to), Word(W_and)>>), Plus(Chr(Space)),
                 Plus(Chr(Digits)), Opt(Chr(Lower)), Plus(Chr(Space)),
                 Word(W_of), Plus(Chr(Space)), Word(W_this), Plus(Chr(Space)),
                 Word(W_title)>>,
     groups |-> <<5>>]

\* [Ss]ection\s+(\d+[a-z]?(?:\([a-z0-9]+\))*)\s+of\s+this\s+title
PatternSectionOfThisTitle ==
    [parts |-> <<Chr({"S", "s"}), Word(W_ection), Plus(Chr(Space)), SectionNumber,
                 Plus(Chr(Space)), Word(W_of), Plus(Chr(Space)), Word(W_this),
                 Plus(Chr(Space)), Word(W_title)>>,
     groups |-> <<4>>]

PATTERNS ==
    <<PatternSectionOfTitle, PatternUSC, PatternTitleSection, PatternRange,
      PatternSectionOfThisTitle>>

\* the substrings the branches of parse_citations look for
S_of_title      == <<"o", "f", " ", "t", "i", "t", "l", "e">>
S_of_this_title == <<"o", "f", " ", "t", "h", "i", "s", " ", "t", "i", "t", "l", "e">>
S_U_S_C         == <<"U", ".", "S", ".", "C">>
S_USC           == <<"U", "S", "C">>

\* the body of the loop with the groups of the first branch taken in the
\* order of the other branches
CitationOfMatch_swapped(m, source_title) ==
    LET groups == m.groups
    IN  IF Len(groups) > 1 /\ groups[1] # <<>> /\ groups[2] # <<>>
        THEN <<<<groups[1], groups[2], m.text>>>>
        ELSE IF groups[1] # <<>> THEN <<<<source_title, groups[1], m.text>>>>
        ELSE <<>>

\* the body of the loop for one match: the tuple appended, if any
CitationOfMatch(m, source_title) ==
    LET lo == lower(m.text)
        up == upper(m.text)
        groups == m.groups
        found ==
            IF Contains(lo, S_of_title) \/ Contains(lo, S_of_this_title)
            THEN <<(IF Len(groups) > 1 /\ groups[2] # <<>> THEN groups[2] ELSE source_title),
                   groups[1]>>
            ELSE IF Contains(up, S_U_S_C) \/ Contains(up, S_USC)
            THEN <<groups[1], groups[2]>>
            ELSE IF Contains(lo, W_title)
            THEN <<groups[1], groups[2]>>
            ELSE <<>>
    IN  IF found # <<>> /\ found[1] # <<>> /\ found[2] # <<>>
        THEN <<<<found[1], found[2], m.text>>>>
        ELSE <<>>

RECURSIVE CitationsOfMatches(_, _)
CitationsOfMatches(matches, source_title) ==
    IF matches = <<>> THEN <<>>
    ELSE CitationOfMatch(Head(matches), source_title)
         \o CitationsOfMatches(Tail(matches), source_title)

\* the loop over the patterns
RECURSIVE CitationsOfPatterns(_, _, _)
CitationsOfPatterns(patterns, text, source_title) ==
    IF patterns = <<>> THEN <<>>
    ELSE CitationsOfMatches(finditer(Head(patterns), text), source_title)
         \o CitationsOfPatterns(Tail(patterns), text, source_title)

\* (target_title, target_section, citation_text) tuples, pattern by pattern
parse_citations(text, source_title) ==
    CitationsOfPatterns(PATTERNS, text, source_title)

----------------------------------------------------------------------------
(* parse_xml_for_citations *)

\* re.search(r"title_(\d+)", folder_name): the digits after "title_"
RECURSIVE DigitRun(_)
DigitRun(s) ==
    IF s # <<>> /\ Head(s) \in Digits THEN <<Head(s)>> \o DigitRun(Tail(s))
    ELSE <<>>

SourceTitle(folder_name) ==
    IF folder_name # <<>> /\ Head(folder_name) = "title_"
       /\ DigitRun(Tail(folder_name)) # <<>>
    THEN DigitRun(Tail(folder_name))
    ELSE <<"unknown">>

\* re.search(r"/s(\d+[a-z]?)", source_identifier): group 1, or ""
RECURSIVE SourceSectionFrom(_)
SourceSectionFrom(s) ==
    IF s = <<>> THEN <<>>
    ELSE IF Head(s) = "/s" /\ DigitRun(Tail(s)) # <<>>
    THEN LET d == DigitRun(Tail(s))
             rest == SubSeq(s, Len(d) + 2, Len(s))
         IN  IF rest # <<>> /\ Head(rest) \in Lower THEN d \o <<Head(rest)>> ELSE d
    ELSE SourceSectionFrom(Tail(s))

\* the test of the "Skip self-citations" branch
IsSelfCitation_never(target_identifier, source_identifier) == FALSE

IsSelfCitation(target_identifier, source_identifier) ==
    target_identifier = source_identifier

Citation(source_title, source_section, source_identifier, target_title, target_section, target_identifier, citation_text) ==
    [source_title      |-> source_title,
     source_section    |-> source_section,
     source_identifier |-> source_identifier,
     target_title      |-> target_title,
     target_section    |-> target_section,
     target_identifier |-> target_identifier,
     citation_text     |-> citation_text]

\* the inner loop over found_citations of one section
RECURSIVE SectionCitations(_, _, _)
SectionCitations(source_title, source_identifier, found) ==
    IF found = <<>> THEN <<>>
    ELSE LET f == Head(found)
             target_identifier == normalize_identifier(f[1], f[2])
             rest == SectionCitations(source_title, source_identifier, Tail(found))
         IN  IF IsSelfCitation(target_identifier, source_identifier)
             THEN rest
             ELSE <<Citation(source_title, SourceSectionFrom(source_identifier),
                             source_identifier, f[1], f[2], target_identifier,
                             f[3])>> \o rest

\* the loop over root.iter(section)
RECURSIVE SectionsCitations(_, _)
SectionsCitations(source_title, sections) ==
    IF sections = <<>> THEN <<>>
    ELSE SectionCitations(source_title, Head(sections).identifier,
                          parse_citations(Head(sections).text, source_title))
         \o SectionsCitations(source_title, Tail(sections))

\* a file that ET.parse rejects yields no citations
parse_xml_for_citations(file) ==
    IF file.well_formed
    THEN SectionsCitations(SourceTitle(file.folder_name), file.sections)
    ELSE <<>>

----------------------------------------------------------------------------
(* create_database *)

\* the columns of the table's UNIQUE constraint
SameKey_pair(r, c) ==
    /\ r.source_identifier = c.source_identifier
    /\ r.target_identifier = c.target_identifier

SameKey(r, c) ==
    /\ r.source_identifier = c.source_identifier
    /\ r.target_identifier = c.target_identifier
    /\ r.citation_text = c.citation_text

\* INSERT OR IGNORE under UNIQUE(source_identifier, target_identifier, citation_text)
InsertOrIgnore_always(rows, c) == Append(rows, c)

InsertOrIgnore(rows, c) ==
    IF \E i \in 1..Len(rows) : SameKey(rows[i], c) THEN rows ELSE Append(rows, c)

\* the table built anew from the citations of the run
RECURSIVE InsertAll_fresh(_, _)
InsertAll_fresh(rows, citations) ==
    IF citations = <<>> THEN <<>>
    ELSE InsertOrIgnore(InsertAll_fresh(rows, SubSeq(citations, 1, Len(citations) - 1)),
                        citations[Len(citations)])

RECURSIVE InsertAll(_, _)
InsertAll(rows, citations) ==
    IF citations = <<>> THEN rows
    ELSE InsertAll(InsertOrIgnore(rows, Head(citations)), Tail(citations))

----------------------------------------------------------------------------
(* build_citation_graph *)

RECURSIVE ParseAll_stop(_)
ParseAll_stop(xml_files) ==
    IF xml_files = <<>> \/ ~Head(xml_files).well_formed THEN <<>>
    ELSE parse_xml_for_citations(Head(xml_files)) \o ParseAll_stop(Tail(xml_files))

\* the loop over xml_files: all_citations.extend(parse_xml_for_citations(f))
RECURSIVE ParseAll(_)
ParseAll(xml_files) ==
    IF xml_files = <<>> THEN <<>>
    ELSE parse_xml_for_citations(Head(xml_files)) \o ParseAll(Tail(xml_files))

\* the "Deduplicate" loop: first citation of every (source, target) pair
RECURSIVE unique_citations(_, _)
unique_citations(all_citations, seen) ==
    IF all_citations = <<>> THEN <<>>
    ELSE LET c == Head(all_citations)
             key == <<c.source_identifier, c.target_identifier>>
         IN  IF key \in seen THEN unique_citations(Tail(all_citations), seen)
             ELSE <<c>> \o unique_citations(Tail(all_citations), seen \cup {key})

\* the list handed to create_database
CitationsToStore_unique(all_citations) == unique_citations(all_citations, {})

CitationsToStore(all_citations) == all_citations

----------------------------------------------------------------------------
(* app/citations.py: the connection and the two lookups *)

\* get_db_connection: None when the file is missing, else a connection
get_db_connection_always(db) == "conn"

get_db_connection(db) == IF db = "absent" THEN "None" ELSE "conn"

citation_db_exists(db) == db # "absent"

\* citations.db after a call of get_db_connection: sqlite3.connect, when it
\* is reached, creates the file if there is none
AfterConnection(db) ==
    IF get_db_connection(db) = "None" THEN db
    ELSE IF db = "absent" THEN "no_table" ELSE db

\* what a query leaves alone: it executes SELECT statements only and closes
\* its connection without a commit
QueryFrame == UNCHANGED <<corpus, store, ing, runs, prevRun, lastRun>>

\* outcome of a call: what it returned, or the exception it raised
Returned(value) == [kind |-> "returned", value |-> value]
Raised(error)   == [kind |-> "raised", value |-> <<error>>]

\* cursor.execute on a file that has no citations table yet
NoSuchTable == Raised("OperationalError: no such table: citations")

\* SELECT DISTINCT: the first occurrence of every value, in rowid order
RECURSIVE Distinct(_, _)
Distinct(s, seen) ==
    IF s = <<>> THEN <<>>
    ELSE IF Head(s) \in seen THEN Distinct(Tail(s), seen)
    ELSE <<Head(s)>> \o Distinct(Tail(s), seen \cup {Head(s)})

\* LIMIT ?: SQLite reads a negative limit as no limit
SqlLimit_all(s, limit) == s

SqlLimit(s, limit) ==
    IF limit < 0 \/ limit >= Len(s) THEN s ELSE SubSeq(s, 1, limit)

RelatedSection(identifier, title, section, relationship, citation_text) ==
    [identifier |-> identifier, title |-> title, section |-> section,
     relationship |-> relationship, citation_text |-> citation_text]

\* WHERE target_identifier = ?
ThatCiteWhere_source(r, identifier) == r.source_identifier = identifier

ThatCiteWhere(r, identifier) == r.target_identifier = identifier

\* WHERE source_identifier = ?
CitedByWhere(r, identifier) == r.source_identifier = identifier

\* the rows get_sections_that_cite builds from its query
ThatCiteRows(rows, identifier, limit) ==
    LET matching == SelectSeq(rows, LAMBDA r : ThatCiteWhere(r, identifier))
        selected == [i \in 1..Len(matching) |->
                        RelatedSection(matching[i].source_identifier,
                                       matching[i].source_title,
                                       matching[i].source_section,
                                       "cited_by", matching[i].citation_text)]
    IN  SqlLimit(Distinct(selected, {}), limit)

\* the rows get_sections_cited_by builds from its query
CitedByRows(rows, identifier, limit) ==
    LET matching == SelectSeq(rows, LAMBDA r : CitedByWhere(r, identifier))
        selected == [i \in 1..Len(matching) |->
                        RelatedSection(matching[i].target_identifier,
                                       matching[i].target_title,
                                       matching[i].target_section,
                                       "cites", matching[i].citation_text)]
    IN  SqlLimit(Distinct(selected, {}), limit)

get_sections_that_cite(db, rows, identifier, limit) ==
    IF get_db_connection(db) = "None" THEN Returned(<<>>)
    ELSE IF db # "ready" THEN NoSuchTable
    ELSE Returned(ThatCiteRows(rows, identifier, limit))

get_sections_cited_by(db, rows, identifier, limit) ==
    IF get_db_connection(db) = "None" THEN Returned(<<>>)
    ELSE IF db # "ready" THEN NoSuchTable
    ELSE Returned(CitedByRows(rows, identifier, limit))

\* the dict entries get_related_sections builds from RelatedSection objects
RelatedDict(s) ==
    [identifier |-> s.identifier, title |-> s.title, section |-> s.section,
     citation_text |-> s.citation_text]

RelatedDicts(list) == [i \in 1..Len(list) |-> RelatedDict(list[i])]

\* the dict get_related_sections returns from its two lookup results
RelatedResult(cited_by, cites) ==
    [cited_by |-> RelatedDicts(cited_by),
     cites |-> RelatedDicts(cites),
     total_cited_by |-> Len(cited_by),
     total_cites |-> Len(cites)]

----------------------------------------------------------------------------
(* app/citations.py: get_citation_stats *)

Identifiers(rows, field) == {rows[i][field] : i \in 1..Len(rows)}

\* GROUP BY <side>_identifier: one entry per identifier with COUNT(*); the
\* title and section columns come from some row of the group
GroupEntries(rows, side) ==
    LET idf == IF side = "target" THEN "target_identifier" ELSE "source_identifier"
        tf  == IF side = "target" THEN "target_title" ELSE "source_title"
        sf  == IF side = "target" THEN "target_section" ELSE "source_section"
    IN  {[identifier |-> rows[i][idf], title |-> rows[i][tf],
          section |-> rows[i][sf],
          count |-> Cardinality({j \in 1..Len(rows) : rows[j][idf] = rows[i][idf]})]
            : i \in 1..Len(rows)}

\* ORDER BY cnt without DESC
RECURSIVE Rankings_ascending(_)
Rankings_ascending(entries) ==
    IF entries = {} THEN {<<>>}
    ELSE LET low == {e \in entries : \A f \in entries : f.count >= e.count}
         IN  UNION {{<<e>> \o r :
                        r \in Rankings_ascending({f \in entries : f.identifier # e.identifier})}
                    : e \in low}

\* ORDER BY cnt DESC: every order of the groups with counts not increasing,
\* one entry per identifier
RECURSIVE Rankings(_)
Rankings(entries) ==
    IF entries = {} THEN {<<>>}
    ELSE LET top == {e \in entries : \A f \in entries : f.count <= e.count}
         IN  UNION {{<<e>> \o r :
                        r \in Rankings({f \in entries : f.identifier # e.identifier})}
                    : e \in top}

TopTen == 10

\* ... LIMIT 10
TopLists(rows, side) ==
    {SqlLimit(r, TopTen) : r \in Rankings(GroupEntries(rows, side))}

\* every dict get_citation_stats can return for the committed rows
StatsResults(rows) ==
    {[total_citations |-> Len(rows),
      citing_sections |-> Cardinality(Identifiers(rows, "source_identifier")),
      cited_sections  |-> Cardinality(Identifiers(rows, "target_identifier")),
      most_cited      |-> mc,
      most_citing     |-> ms] :
        mc \in TopLists(rows, "target"), ms \in TopLists(rows, "source")}

\* {"error": "Citation database not found"}
StatsErrorDict == [error |-> "Citation database not found"]

----------------------------------------------------------------------------
(* app/citations.py: search_citation_path *)

MaxPaths == 5

\* while queue and len(found_paths) < 5
LoopRuns_uncapped(queue, found_paths) == queue # <<>>

LoopRuns(queue, found_paths) == queue # <<>> /\ Len(found_paths) < MaxPaths

\* if len(path) > max_depth: continue
TooDeep_off(path, max_depth) == Len(path) > max_depth + 1

TooDeep(path, max_depth) == Len(path) > max_depth

\* elif next_id not in visited and len(path) < max_depth
MayEnqueue_short(next_id, visited, path, max_depth) ==
    next_id \notin visited /\ Len(path) + 1 < max_depth

MayEnqueue_revisit(next_id, visited, path, max_depth) ==
    Len(path) < max_depth

MayEnqueue(next_id, visited, path, max_depth) ==
    next_id \notin visited /\ Len(path) < max_depth

\* SELECT target_identifier ... without DISTINCT
CitedTargets_all(rows, current) ==
    LET matching == SelectSeq(rows, LAMBDA r : r.source_identifier = current)
    IN  [i \in 1..Len(matching) |-> matching[i].target_identifier]

\* SELECT DISTINCT target_identifier FROM citations WHERE source_identifier = ?
CitedTargets(rows, current) ==
    LET matching == SelectSeq(rows, LAMBDA r : r.source_identifier = current)
    IN  Distinct([i \in 1..Len(matching) |-> matching[i].target_identifier], {})

\* the for loop over the fetched rows; st holds visited, queue, found_paths
RECURSIVE ExpandRows_through(_, _, _, _, _)
ExpandRows_through(fetched, path, target_identifier, max_depth, st) ==
    IF fetched = <<>> THEN st
    ELSE LET next_id == Head(fetched)
             st1 == IF next_id = target_identifier
                    THEN [st EXCEPT !.found_paths = Append(@, Append(path, next_id))]
                    ELSE st
             st2 == IF MayEnqueue(next_id, st.visited, path, max_depth)
                    THEN [st1 EXCEPT !.visited = @ \cup {next_id},
                                     !.queue = Append(@, Append(path, next_id))]
                    ELSE st1
         IN  ExpandRows_through(Tail(fetched), path, target_identifier, max_depth, st2)

RECURSIVE ExpandRows_newest_first(_, _, _, _, _)
ExpandRows_newest_first(fetched, path, target_identifier, max_depth, st) ==
    IF fetched = <<>> THEN st
    ELSE LET next_id == Head(fetched)
             st2 == IF next_id = target_identifier
                    THEN [st EXCEPT !.found_paths = <<Append(path, next_id)>> \o @]
                    ELSE IF MayEnqueue(next_id, st.visited, path, max_depth)
                    THEN [st EXCEPT !.visited = @ \cup {next_id},
                                    !.queue = Append(@, Append(path, next_id))]
                    ELSE st
         IN  ExpandRows_newest_first(Tail(fetched), path, target_identifier, max_depth, st2)

RECURSIVE ExpandRows(_, _, _, _, _)
ExpandRows(fetched, path, target_identifier, max_depth, st) ==
    IF fetched = <<>> THEN st
    ELSE LET next_id == Head(fetched)
             st2 == IF next_id = target_identifier
                    THEN [st EXCEPT !.found_paths = Append(@, Append(path, next_id))]
                    ELSE IF MayEnqueue(next_id, st.visited, path, max_depth)
                    THEN [st EXCEPT !.visited = @ \cup {next_id},
                                    !.queue = Append(@, Append(path, next_id))]
                    ELSE st
         IN  ExpandRows(Tail(fetched), path, target_identifier, max_depth, st2)

\* the state search_citation_path starts its loop in
SearchStart(source_identifier) ==
    [visited |-> {source_identifier}, queue |-> <<<<source_identifier>>>>,
     found_paths |-> <<>>]

\* an iteration that leaves the path it looked at in the queue
SearchIteration_keep(rows, target_identifier, max_depth, st) ==
    LET path == Head(st.queue)
    IN  IF TooDeep(path, max_depth) THEN st
        ELSE ExpandRows(CitedTargets(rows, path[Len(path)]), path,
                        target_identifier, max_depth, st)

\* one iteration of the while loop over the rows committed at that moment
SearchIteration(rows, target_identifier, max_depth, st) ==
    LET path == Head(st.queue)
        popped == [st EXCEPT !.queue = Tail(@)]
    IN  IF TooDeep(path, max_depth) THEN popped
        ELSE ExpandRows(CitedTargets(rows, path[Len(path)]), path,
                        target_identifier, max_depth, popped)

----------------------------------------------------------------------------
(* app/routers/citations.py: what FastAPI's Query(...) lets through *)

LimitFloor == 1
LimitCeiling == 50
DepthFloor == 1
DepthCeiling == 5

\* limit: int = Query(default=10, ge=1, le=50)
ValidLimit_unbounded(limit) == limit >= LimitFloor

ValidLimit(limit) == limit >= LimitFloor /\ limit <= LimitCeiling

\* max_depth: int = Query(default=3, ge=1, le=5)
ValidDepth_unbounded(max_depth) == max_depth >= DepthFloor

ValidDepth(max_depth) == max_depth >= DepthFloor /\ max_depth <= DepthCeiling

\* raise HTTPException(status_code=503, ...)
Http503 == Raised("HTTP 503: Citation database not found")

\* FastAPI's answer to a query parameter outside ge/le
Http422 == Raised("HTTP 422: validation error")

----------------------------------------------------------------------------
(* The corpora the ingestion job is run over *)

T1  == <<"1">>
T17 == <<"1", "7">>

IdA == FormatIdentifier(T1, <<"5">>)               \* /us/usc/t1/s5
IdB == FormatIdentifier(T17, <<"1", "0", "1">>)    \* /us/usc/t17/s101
IdC == FormatIdentifier(T17, <<"1", "0", "2">>)    \* /us/usc/t17/s102

\* phrases of section texts, character by character

\* "; "
Sep ==
    <<";", " ">>

\* "section 101 of title 17"
Ph_s101_t17 ==
    <<"s", "e", "c", "t", "i", "o", "n", " ", "1", "0", "1", " ", "o", "f",
      " ", "t", "i", "t", "l", "e", " ", "1", "7">>

\* "section 101(a) of title 17"
Ph_s101a_t17 ==
    <<"s", "e", "c", "t", "i", "o", "n", " ", "1", "0", "1", "(", "a", ")",
      " ", "o", "f", " ", "t", "i", "t", "l", "e", " ", "1", "7">>

\* "title 17, section 102"
Ph_t17_s102 ==
    <<"t", "i", "t", "l", "e", " ", "1", "7", ",", " ", "s", "e", "c", "t",
      "i", "o", "n", " ", "1", "0", "2">>

\* "section 5 of title 1"
Ph_s5_t1 ==
    <<"s", "e", "c", "t", "i", "o", "n", " ", "5", " ", "o", "f", " ", "t",
      "i", "t", "l", "e", " ", "1">>

\* "title 1, section 5(a)(2)"
Ph_t1_s5a2 ==
    <<"t", "i", "t", "l", "e", " ", "1", ",", " ", "s", "e", "c", "t", "i",
      "o", "n", " ", "5", "(", "a", ")", "(", "2", ")">>

\* "section 101 of this title"
Ph_s101_this ==
    <<"s", "e", "c", "t", "i", "o", "n", " ", "1", "0", "1", " ", "o", "f",
      " ", "t", "h", "i", "s", " ", "t", "i", "t", "l", "e">>

\* "section 5 of this title"
Ph_s5_this ==
    <<"s", "e", "c", "t", "i", "o", "n", " ", "5", " ", "o", "f", " ", "t",
      "h", "i", "s", " ", "t", "i", "t", "l", "e">>

\* a section element: its identifier attribute and its text
Section(identifier, text) == [identifier |-> identifier, text |-> text]

XmlFile(folder_name, well_formed, sections) ==
    [folder_name |-> folder_name, well_formed |-> well_formed,
     sections |-> sections]

Folder01 == <<"title_", "0", "1">>
Folder17 == <<"title_", "1", "7">>

\* title 1 section 5 cites title 17 section 101 by two phrases, and itself; a section
\* element without an identifier attribute follows
File01 == XmlFile(Folder01, TRUE,
                  <<Section(IdA, Ph_s101_t17 \o Sep \o Ph_s5_t1 \o Sep \o Ph_s101a_t17
                                 \o Sep \o Ph_s101_t17 \o Sep \o Ph_s5_this),
                    Section(<<>>, Ph_t17_s102)>>)

\* title 17: section 101 cites title 1 section 5 and itself; 102 cites 101 and 1/5
File17 == XmlFile(Folder17, TRUE,
                  <<Section(IdB, Ph_t1_s5a2 \o Sep \o Ph_t17_s102 \o Sep \o Ph_s101_this),
                    Section(IdC, Ph_s5_t1 \o Sep \o Ph_s101_this)>>)

File17Short == XmlFile(Folder17, TRUE, <<Section(IdC, Ph_s101_t17 \o Sep \o Ph_s5_t1)>>)

\* an early snapshot of title 17: section 102 cites title 1 section 5 only
File17Early == XmlFile(Folder17, TRUE, <<Section(IdC, Ph_s5_t1)>>)

FileBroken == XmlFile(Folder17, FALSE, <<Section(IdB, Ph_s5_t1)>>)

\* a file of title 1 that ET.parse rejects, sorted before the files of title 17
File01Broken == XmlFile(Folder01, FALSE, <<Section(IdA, Ph_s101_t17)>>)

Corpora ==
    { <<>>,
      <<File01>>,
      <<File01, File17>>,
      <<File17Short>>,
      <<File01, FileBroken>>,
      <<File01Broken, File17>> }

----------------------------------------------------------------------------
(* State *)

NoRun == [valid |-> FALSE, input |-> <<>>, rows |-> <<>>, report |-> <<>>]

IngIdle == [pc |-> "idle", input |-> <<>>, all_citations |-> <<>>, txn |-> <<>>]

NoOutcome == [kind |-> "none", value |-> <<>>]

\* a query: who called (a direct call of the function or the HTTP endpoint),
\* the arguments, and the locals of the function while it runs
NewReq(op, via, identifier, target, limit, max_depth) ==
    [pc |-> "call", op |-> op, via |-> via,
     identifier |-> identifier, target |-> target,
     limit |-> limit, max_depth |-> max_depth,
     conn_calls |-> 0,       \* calls of get_db_connection made
     saw_absent |-> 0,       \* ... of which found no citations.db
     reads |-> 0,            \* SQL statements executed
     cited_by |-> <<>>,      \* get_related_sections: result of the first lookup
     rows_at_call |-> <<>>,  \* search_citation_path: the rows committed when it began
     bfs |-> SearchStart(<<>>),
     outcome |-> NoOutcome]

ReqIdle == [NewReq("none", "direct", <<>>, <<>>, 0, 0) EXCEPT !.pc = "idle"]

Init ==
    /\ corpus \in Corpora
    /\ dbState = "absent"
    /\ store = <<>>
    /\ ing = IngIdle
    /\ runs = 0
    /\ prevRun = NoRun
    /\ lastRun = NoRun
    /\ req = ReqIdle

----------------------------------------------------------------------------
(* The corpus directory changes between runs *)

ChangeCorpus ==
    /\ ing.pc = "idle"
    /\ \E c \in Corpora : c # corpus /\ corpus' = c
    /\ UNCHANGED <<dbState, store, ing, runs, prevRun, lastRun, req>>

----------------------------------------------------------------------------
(* build_citation_graph, step by step *)

\* the lines of "  Warning: Failed to parse ..." printed while parsing: the
\* positions of the files they name
WarningLines(xml_files) ==
    SelectSeq([k \in 1..Len(xml_files) |-> k], LAMBDA k : ~xml_files[k].well_formed)

\* what a run that reaches its end has printed, by label
Report(xml_files, all_citations, rows) ==
    [xml_files            |-> Len(xml_files),
     warning_lines        |-> WarningLines(xml_files),
     total_found          |-> Len(all_citations),
     unique_relationships |-> Len(unique_citations(all_citations, {})),
     total_citations      |-> Len(rows),
     sections_citing      |-> Cardinality({rows[i].source_identifier : i \in 1..Len(rows)}),
     sections_cited       |-> Cardinality({rows[i].target_identifier : i \in 1..Len(rows)})]

\* print("ERROR: No XML files found!")
NoFilesReport == [error |-> "ERROR: No XML files found!"]

RunDone(input, rows, report) ==
    /\ runs' = runs + 1
    /\ prevRun' = lastRun
    /\ lastRun' = [valid |-> TRUE, input |-> input, rows |-> rows, report |-> report]

\* "ERROR: No XML files found!": the run returns before it opens the database
build_no_xml_files ==
    /\ ing.pc = "idle"
    /\ runs < MaxRuns
    /\ corpus = <<>>
    /\ RunDone(corpus, store, NoFilesReport)
    /\ UNCHANGED <<corpus, dbState, store, ing, req>>

\* the parsing loop over xml_files
build_parse ==
    /\ ing.pc = "idle"
    /\ runs < MaxRuns
    /\ corpus # <<>>
    /\ ing' = [pc |-> "connect", input |-> corpus,
               all_citations |-> ParseAll(corpus), txn |-> <<>>]
    /\ UNCHANGED <<corpus, dbState, store, runs, prevRun, lastRun, req>>

\* sqlite3.connect(CITATION_DB) creates the file when it is missing
create_database_connect ==
    /\ ing.pc = "connect"
    /\ dbState' = IF dbState = "absent" THEN "no_table" ELSE dbState
    /\ ing' = [ing EXCEPT !.pc = "create_table"]
    /\ UNCHANGED <<corpus, store, runs, prevRun, lastRun, req>>

\* CREATE TABLE IF NOT EXISTS and the two CREATE INDEX IF NOT EXISTS
create_database_table ==
    /\ ing.pc = "create_table"
    /\ dbState' = "ready"
    /\ ing' = [ing EXCEPT !.pc = "insert"]
    /\ UNCHANGED <<corpus, store, runs, prevRun, lastRun, req>>

\* the INSERT OR IGNORE loop, inside the connection's open transaction
create_database_insert ==
    /\ ing.pc = "insert"
    /\ ing' = [ing EXCEPT !.pc = "commit",
                          !.txn = InsertAll(store, CitationsToStore(ing.all_citations))]
    /\ UNCHANGED <<corpus, dbState, store, runs, prevRun, lastRun, req>>

\* conn.commit()
create_database_commit ==
    /\ ing.pc = "commit"
    /\ store' = ing.txn
    /\ ing' = [ing EXCEPT !.pc = "report"]
    /\ UNCHANGED <<corpus, dbState, runs, prevRun, lastRun, req>>

\* the counting queries and the printed report; the run is over
build_report ==
    /\ ing.pc = "report"
    /\ RunDone(ing.input, store, Report(ing.input, ing.all_citations, store))
    /\ ing' = IngIdle
    /\ UNCHANGED <<corpus, dbState, store, req>>

Next ==
    \/ ChangeCorpus
    \/ build_no_xml_files
    \/ build_parse
    \/ create_database_connect
    \/ create_database_table
    \/ create_database_insert
    \/ create_database_commit
    \/ build_report


----------------------------------------------------------------------------
(* Queries: arguments callers supply *)

\* (title, section) pairs a caller asks about
AskedSections == {<<T1, <<"5">>>>, <<T17, <<"1", "0", "1">>>>,
                  <<T17, <<"1", "0", "2">>>>}

AskedIds == {FormatIdentifier(p[1], p[2]) : p \in AskedSections}

\* a path parameter that carries a subsection: /related/17/101(a)
MalformedSections == {<<T17, <<"1", "0", "1", "(", "a", ")">>>>}

\* the {title}/{section} values requests come with
HttpSections == AskedSections \cup MalformedSections

DirectLimits == {-1, 0, 1, 2, 51}
HttpLimits   == {0, 1, 2, 50, 51}
DirectDepths == {0, 2, 7}
HttpDepths   == {0, 1, 3, 5, 6}

Done(outcome) == [req EXCEPT !.pc = "done", !.outcome = outcome]

\* one more get_db_connection call, made in the current state
Connecting(r) ==
    [r EXCEPT !.conn_calls = @ + 1,
              !.saw_absent = IF dbState = "absent" THEN @ + 1 ELSE @]

\* one more cursor.execute
Reading(r) == [r EXCEPT !.reads = @ + 1]

----------------------------------------------------------------------------
(* Direct calls of the functions of app/citations.py *)

call_lookup ==
    /\ req.pc = "idle"
    /\ \E op \in {"that_cite", "cited_by"}, id \in AskedIds, limit \in DirectLimits :
          req' = NewReq(op, "direct", id, <<>>, limit, 0)
    /\ UNCHANGED ingVars

call_related ==
    /\ req.pc = "idle"
    /\ \E id \in AskedIds, limit \in DirectLimits :
          req' = NewReq("related", "direct", id, <<>>, limit, 0)
    /\ UNCHANGED ingVars

call_stats ==
    /\ req.pc = "idle"
    /\ req' = NewReq("stats", "direct", <<>>, <<>>, 0, 0)
    /\ UNCHANGED ingVars

call_path ==
    /\ req.pc = "idle"
    /\ \E source \in AskedIds, target \in AskedIds, max_depth \in DirectDepths :
          req' = NewReq("path", "direct", source, target, 0, max_depth)
    /\ UNCHANGED ingVars

----------------------------------------------------------------------------
(* The endpoints of app/routers/citations.py, up to the call of the function *)

\* a query parameter outside its ge/le range: FastAPI answers before the
\* endpoint function runs
http_invalid ==
    /\ req.pc = "idle"
    /\ \/ \E p \in HttpSections, limit \in HttpLimits :
             /\ ~ValidLimit(limit)
             /\ req' = [NewReq("related", "http", FormatIdentifier(p[1], p[2]),
                               <<>>, limit, 0)
                           EXCEPT !.pc = "done", !.outcome = Http422]
       \/ \E p \in HttpSections, q \in AskedSections, max_depth \in HttpDepths :
             /\ ~ValidDepth(max_depth)
             /\ req' = [NewReq("path", "http", FormatIdentifier(p[1], p[2]),
                               FormatIdentifier(q[1], q[2]), 0, max_depth)
                           EXCEPT !.pc = "done", !.outcome = Http422]
    /\ UNCHANGED ingVars

\* the request an endpoint function is entered with
HttpRequests ==
    {NewReq("stats", "http", <<>>, <<>>, 0, 0)}
    \cup {NewReq("related", "http", FormatIdentifier(p[1], p[2]), <<>>, limit, 0) :
            p \in HttpSections, limit \in {l \in HttpLimits : ValidLimit(l)}}
    \cup {NewReq("path", "http", FormatIdentifier(p[1], p[2]),
                 FormatIdentifier(q[1], q[2]), 0, max_depth) :
            p \in HttpSections, q \in AskedSections,
            max_depth \in {d \in HttpDepths : ValidDepth(d)}}

\* if not citation_db_exists(): raise HTTPException(status_code=503)
http_unavailable ==
    /\ req.pc = "idle"
    /\ ~citation_db_exists(dbState)
    /\ \E r \in HttpRequests : req' = [r EXCEPT !.pc = "done", !.outcome = Http503]
    /\ UNCHANGED ingVars

\* the store exists: the endpoint goes on to call the function
http_pass ==
    /\ req.pc = "idle"
    /\ citation_db_exists(dbState)
    /\ \E r \in HttpRequests : req' = r
    /\ UNCHANGED ingVars

----------------------------------------------------------------------------
(* The functions of app/citations.py, statement by statement *)

\* get_sections_that_cite / get_sections_cited_by
run_lookup ==
    /\ req.pc = "call"
    /\ req.op \in {"that_cite", "cited_by"}
    /\ LET r == Connecting(req)
           res == IF req.op = "that_cite"
                  THEN get_sections_that_cite(dbState, store, req.identifier, req.limit)
                  ELSE get_sections_cited_by(dbState, store, req.identifier, req.limit)
       IN  req' = [(IF get_db_connection(dbState) = "None" THEN r ELSE Reading(r))
                      EXCEPT !.pc = "done", !.outcome = res]
    /\ dbState' = AfterConnection(dbState)
    /\ QueryFrame

\* get_related_sections: cited_by = get_sections_that_cite(identifier, limit)
related_first ==
    /\ req.pc = "call"
    /\ req.op = "related"
    /\ LET r == Connecting(req)
           r2 == IF get_db_connection(dbState) = "None" THEN r ELSE Reading(r)
           res == get_sections_that_cite(dbState, store, req.identifier, req.limit)
       IN  req' = IF res.kind = "raised"
                  THEN [r2 EXCEPT !.pc = "done", !.outcome = res]
                  ELSE [r2 EXCEPT !.pc = "related_2", !.cited_by = res.value]
    /\ dbState' = AfterConnection(dbState)
    /\ QueryFrame

\* get_related_sections: cites = get_sections_cited_by(identifier, limit),
\* and the returned dict
related_second ==
    /\ req.pc = "related_2"
    /\ LET r == Connecting(req)
           r2 == IF get_db_connection(dbState) = "None" THEN r ELSE Reading(r)
           res == get_sections_cited_by(dbState, store, req.identifier, req.limit)
       IN  req' = IF res.kind = "raised"
                  THEN [r2 EXCEPT !.pc = "done", !.outcome = res]
                  ELSE [r2 EXCEPT !.pc = "done",
                                  !.outcome = Returned(RelatedResult(req.cited_by,
                                                                     res.value))]
    /\ dbState' = AfterConnection(dbState)
    /\ QueryFrame

\* get_citation_stats without a store: the error dict
stats_not_found ==
    /\ req.pc = "call"
    /\ req.op = "stats"
    /\ get_db_connection(dbState) = "None"
    /\ req' = [Connecting(req) EXCEPT !.pc = "done",
                                      !.outcome = Returned(StatsErrorDict)]
    /\ dbState' = AfterConnection(dbState)
    /\ QueryFrame

\* get_citation_stats: the five queries
stats_run ==
    /\ req.pc = "call"
    /\ req.op = "stats"
    /\ get_db_connection(dbState) # "None"
    /\ dbState = "ready"
    /\ \E result \in StatsResults(store) :
          req' = [Connecting(req) EXCEPT !.pc = "done", !.reads = @ + 5,
                                         !.outcome = Returned(result)]
    /\ dbState' = AfterConnection(dbState)
    /\ QueryFrame

\* get_citation_stats on a file without the table: the first query raises
stats_no_table ==
    /\ req.pc = "call"
    /\ req.op = "stats"
    /\ get_db_connection(dbState) # "None"
    /\ dbState # "ready"
    /\ req' = [Reading(Connecting(req)) EXCEPT !.pc = "done", !.outcome = NoSuchTable]
    /\ dbState' = AfterConnection(dbState)
    /\ QueryFrame

\* search_citation_path without a store: return []
path_not_found ==
    /\ req.pc = "call"
    /\ req.op = "path"
    /\ get_db_connection(dbState) = "None"
    /\ req' = [Connecting(req) EXCEPT !.pc = "done", !.outcome = Returned(<<>>)]
    /\ dbState' = AfterConnection(dbState)
    /\ QueryFrame

\* search_citation_path: connection, visited, queue, found_paths
path_begin ==
    /\ req.pc = "call"
    /\ req.op = "path"
    /\ get_db_connection(dbState) # "None"
    /\ req' = [Connecting(req) EXCEPT !.pc = "bfs",
                                      !.rows_at_call = store,
                                      !.bfs = SearchStart(req.identifier)]
    /\ dbState' = AfterConnection(dbState)
    /\ QueryFrame

\* one iteration of the while loop that pops a path too long to expand
path_skip ==
    /\ req.pc = "bfs"
    /\ LoopRuns(req.bfs.queue, req.bfs.found_paths)
    /\ TooDeep(Head(req.bfs.queue), req.max_depth)
    /\ req' = [req EXCEPT !.bfs = SearchIteration(store, req.target,
                                                  req.max_depth, req.bfs)]
    /\ UNCHANGED ingVars

\* one iteration of the while loop that queries the rows committed just then
path_expand ==
    /\ req.pc = "bfs"
    /\ LoopRuns(req.bfs.queue, req.bfs.found_paths)
    /\ ~TooDeep(Head(req.bfs.queue), req.max_depth)
    /\ dbState = "ready"
    /\ req' = [Reading(req) EXCEPT !.bfs = SearchIteration(store, req.target,
                                                           req.max_depth, req.bfs)]
    /\ UNCHANGED ingVars

\* the query of an iteration raises on a file without the table
path_no_table ==
    /\ req.pc = "bfs"
    /\ LoopRuns(req.bfs.queue, req.bfs.found_paths)
    /\ ~TooDeep(Head(req.bfs.queue), req.max_depth)
    /\ dbState # "ready"
    /\ req' = [Reading(req) EXCEPT !.pc = "done", !.outcome = NoSuchTable]
    /\ UNCHANGED ingVars

\* the loop is over: return found_paths
path_return ==
    /\ req.pc = "bfs"
    /\ ~LoopRuns(req.bfs.queue, req.bfs.found_paths)
    /\ req' = Done(Returned(req.bfs.found_paths))
    /\ UNCHANGED ingVars

\* the caller has its answer
finish ==
    /\ req.pc = "done"
    /\ req' = ReqIdle
    /\ UNCHANGED ingVars

----------------------------------------------------------------------------
(* Ingestion alone *)

Spec == Init /\ [][Next]_vars

----------------------------------------------------------------------------
(* Queries served while ingestion runs *)

NextServe ==
    \/ build_no_xml_files
    \/ build_parse
    \/ create_database_connect
    \/ create_database_table
    \/ create_database_insert
    \/ create_database_commit
    \/ build_report
    \/ call_lookup
    \/ call_related
    \/ call_stats
    \/ call_path
    \/ http_invalid
    \/ http_unavailable
    \/ http_pass
    \/ run_lookup
    \/ related_first
    \/ related_second
    \/ stats_not_found
    \/ stats_run
    \/ stats_no_table
    \/ path_not_found
    \/ path_begin
    \/ path_skip
    \/ path_expand
    \/ path_no_table
    \/ path_return
    \/ finish

SpecServe == Init /\ [][NextServe]_vars

----------------------------------------------------------------------------
(* search_citation_path over stored graphs of every shape *)

Node(section) == FormatIdentifier(T1, section)

NodeS == Node(<<"1">>)
NodeT == Node(<<"2">>)
NodeA == Node(<<"5">>)
NodeB == Node(<<"7">>)
NodeC == Node(<<"1", "0">>)
NodeD == Node(<<"1", "1">>)
NodeE == Node(<<"1", "2">>)
NodeX == Node(<<"1", "5">>)

\* the row of an edge <<source, target, citation_text>>
EdgeRow(e) ==
    Citation(T1, SourceSectionFrom(e[1]), e[1], T1, SourceSectionFrom(e[2]), e[2], e[3])

RECURSIVE PickRows(_, _, _)
PickRows(edges, chosen, i) ==
    IF i > Len(edges) THEN <<>>
    ELSE (IF i \in chosen THEN <<EdgeRow(edges[i])>> ELSE <<>>)
         \o PickRows(edges, chosen, i + 1)

\* every directed graph without loops on four sections
Edges4 ==
    << <<NodeS, NodeA, "p">>, <<NodeS, NodeB, "p">>, <<NodeS, NodeT, "p">>,
       <<NodeA, NodeS, "p">>, <<NodeA, NodeB, "p">>, <<NodeA, NodeT, "p">>,
       <<NodeB, NodeS, "p">>, <<NodeB, NodeA, "p">>, <<NodeB, NodeT, "p">>,
       <<NodeT, NodeS, "p">>, <<NodeT, NodeA, "p">>, <<NodeT, NodeB, "p">> >>

Graphs4 == {PickRows(Edges4, chosen, 1) : chosen \in SUBSET (1..Len(Edges4))}

\* a fan: S cites five sections, four of which cite T, and more edges at will
FanEdges ==
    << <<NodeS, NodeT, "p">>, <<NodeS, NodeT, "q">>,
       <<NodeS, NodeA, "p">>, <<NodeS, NodeB, "p">>, <<NodeS, NodeC, "p">>,
       <<NodeS, NodeD, "p">>, <<NodeS, NodeE, "p">>, <<NodeS, NodeX, "p">>,
       <<NodeA, NodeT, "p">>, <<NodeB, NodeT, "p">>, <<NodeC, NodeT, "p">>,
       <<NodeD, NodeT, "p">>, <<NodeE, NodeT, "p">>, <<NodeX, NodeT, "p">>,
       <<NodeT, NodeS, "p">>, <<NodeA, NodeB, "p">> >>

FanCore == {3, 4, 5, 6, 7, 9, 10, 11, 12}

FanGraphs ==
    {PickRows(FanEdges, FanCore \cup extra, 1) :
        extra \in SUBSET ((1..Len(FanEdges)) \ FanCore)}

SearchDepths == 0..MaxDepthArg

InitSearch ==
    /\ corpus = <<>>
    /\ dbState = "ready"
    /\ store \in Graphs4 \cup FanGraphs
    /\ ing = IngIdle
    /\ runs = 0
    /\ prevRun = NoRun
    /\ lastRun = NoRun
    /\ req = ReqIdle

search_call ==
    /\ req.pc = "idle"
    /\ \E target \in {NodeS, NodeT}, max_depth \in SearchDepths :
          req' = NewReq("path", "direct", NodeS, target, 0, max_depth)
    /\ UNCHANGED ingVars

NextSearch ==
    \/ search_call
    \/ path_begin
    \/ path_skip
    \/ path_expand
    \/ path_return
    \/ finish

SpecSearch == InitSearch /\ [][NextSearch]_vars

\* the loop of a call that has begun goes on to its next iteration, and the
\* function returns when the loop is over: the call runs in one thread that
\* waits for nothing but its own queries
SearchRuns == path_skip \/ path_expand \/ path_return

\* every directed graph without loops on three sections
Edges3 ==
    << <<NodeS, NodeA, "p">>, <<NodeS, NodeT, "p">>, <<NodeA, NodeS, "p">>,
       <<NodeA, NodeT, "p">>, <<NodeT, NodeS, "p">>, <<NodeT, NodeA, "p">> >>

Graphs3 == {PickRows(Edges3, chosen, 1) : chosen \in SUBSET (1..Len(Edges3))}

InitTerminate ==
    /\ corpus = <<>>
    /\ dbState = "ready"
    /\ store \in Graphs3
    /\ ing = IngIdle
    /\ runs = 0
    /\ prevRun = NoRun
    /\ lastRun = NoRun
    /\ req = ReqIdle

SpecTerminate == InitTerminate /\ [][NextSearch]_vars /\ WF_vars(SearchRuns)

----------------------------------------------------------------------------
(* search_citation_path while runs over a changing corpus commit *)

InitRace ==
    /\ corpus = <<File17Early>>
    /\ dbState = "absent"
    /\ store = <<>>
    /\ ing = IngIdle
    /\ runs = 0
    /\ prevRun = NoRun
    /\ lastRun = NoRun
    /\ req = ReqIdle

\* searches from title 17 section 102
race_call ==
    /\ req.pc = "idle"
    /\ \E target \in {IdA, IdB}, max_depth \in {0, 2} :
          req' = NewReq("path", "direct", IdC, target, 0, max_depth)
    /\ UNCHANGED ingVars

NextRace ==
    \/ ChangeCorpus
    \/ build_no_xml_files
    \/ build_parse
    \/ create_database_connect
    \/ create_database_table
    \/ create_database_insert
    \/ create_database_commit
    \/ build_report
    \/ race_call
    \/ path_not_found
    \/ path_begin
    \/ path_skip
    \/ path_expand
    \/ path_no_table
    \/ path_return
    \/ finish

SpecRace == InitRace /\ [][NextRace]_vars

----------------------------------------------------------------------------
(* get_citation_stats over stores with more targets than the lists hold *)

DigitChars == <<"0", "1", "2", "3", "4", "5", "6", "7", "8", "9">>

\* the decimal digits of a number below 100
Decimal(k) ==
    IF k < 10 THEN <<DigitChars[k + 1]>>
    ELSE <<DigitChars[(k \div 10) + 1], DigitChars[(k % 10) + 1]>>

StatNode(k) == Node(Decimal(k))

StatTargets == 12
StatSources == 13

\* section k is cited by the k sections 1..k+1 other than itself
CitesInFull(j, k) == j # k /\ j <= k + 1

\* the citations left out of a store at will; each makes two counts equal
StatDrops == {<<1, 12>>, <<1, 3>>, <<1, 2>>, <<2, 7>>, <<3, 9>>}

\* the store of the first n targets without the dropped citations, in the
\* order the rows were inserted
StatRows(n, drops) ==
    LET pairs == [i \in 1..(StatSources * n) |->
                     <<((i - 1) \div n) + 1, ((i - 1) % n) + 1>>]
        kept == SelectSeq(pairs, LAMBDA q : CitesInFull(q[1], q[2]) /\ q \notin drops)
    IN  [i \in 1..Len(kept) |->
            EdgeRow(<<StatNode(kept[i][1]), StatNode(kept[i][2]), "p">>)]

\* A cites X under five texts, B cites X under three, C cites Y once
ExampleEdges ==
    << <<NodeA, NodeX, "p1">>, <<NodeA, NodeX, "p2">>, <<NodeA, NodeX, "p3">>,
       <<NodeA, NodeX, "p4">>, <<NodeA, NodeX, "p5">>,
       <<NodeB, NodeX, "p1">>, <<NodeB, NodeX, "p2">>, <<NodeB, NodeX, "p3">>,
       <<NodeC, NodeE, "p1">> >>

ExampleStore == PickRows(ExampleEdges, 1..Len(ExampleEdges), 1)

StatStores ==
    {StatRows(n, drops) : n \in {9, 10, 11, StatTargets}, drops \in SUBSET StatDrops}
    \cup {ExampleStore}

InitStats ==
    /\ corpus = <<>>
    /\ dbState = "ready"
    /\ store \in StatStores
    /\ ing = IngIdle
    /\ runs = 0
    /\ prevRun = NoRun
    /\ lastRun = NoRun
    /\ req = ReqIdle

NextStats ==
    \/ call_stats
    \/ stats_run
    \/ finish

SpecStats == InitStats /\ [][NextStats]_vars

----------------------------------------------------------------------------
(* Ingestion of one section whose text holds one reference phrase *)

T10 == <<"1", "0">>
T35 == <<"3", "5">>

Folder10 == <<"title_", "1", "0">>
Folder35 == <<"title_", "3", "5">>

N5    == <<"5">>
N101  == <<"1", "0", "1">>
N102  == <<"1", "0", "2">>
N105  == <<"1", "0", "5">>
N101a == <<"1", "0", "1", "a">>

Sp == <<" ">>

\* "section N of title T", or "Section N of Title T"
SectionOfTitlePhrase(cap, N, T) ==
    (IF cap THEN <<"S">> ELSE <<"s">>) \o W_ection \o Sp \o N \o Sp \o W_of \o Sp
    \o (IF cap THEN <<"T">> ELSE <<"t">>) \o W_itle \o Sp \o T

\* "sections N through M of this title", with to or and, or "section N ..."
RangePhrase(plural, N, conj, M) ==
    <<"s">> \o W_ection \o (IF plural THEN <<"s">> ELSE <<>>) \o Sp \o N \o Sp
    \o conj \o Sp \o M \o Sp \o W_of \o Sp \o W_this \o Sp \o W_title

\* the section sign, one element
SectionSign == "U+00A7"

\* "T U.S.C. N", "T U.S.C. <section sign> N", "T USC N"
USCForms ==
    {<<"U", ".", "S", ".", "C", ".">>,
     <<"U", ".", "S", ".", "C", ".", " ", SectionSign>>,
     <<"U", "S", "C">>}

USCPhrase(T, form, N) == T \o Sp \o form \o Sp \o N

\* what stands before and after the phrase in the text
Pres  == {<<>>, <<"s", "e", "e", " ">>}
Posts == {<<>>, <<".">>}

SectionOfTitleTexts ==
    {pre \o SectionOfTitlePhrase(cap, N, T) \o post :
        pre \in Pres, post \in Posts, cap \in BOOLEAN, N \in {N101, N5, N101a},
        T \in {T17, T1}}

RangeTexts ==
    {pre \o RangePhrase(plural, N, conj, N105) \o post :
        pre \in Pres, post \in {<<>>}, plural \in BOOLEAN, N \in {N102, N5},
        conj \in {W_through, W_to, W_and}}

USCTexts ==
    {pre \o USCPhrase(T17, form, N) \o post :
        pre \in Pres, post \in {<<>>}, form \in USCForms, N \in {N101, N102}}

\* subsection suffixes as texts write them: (a), (A), (a)(2), (B)(ii)
Subsections ==
    {<<"(", "a", ")">>, <<"(", "A", ")">>, <<"(", "a", ")", "(", "2", ")">>,
     <<"(", "B", ")", "(", "i", "i", ")">>}

\* "section 101(A) of title 17" and the like
SubsectionTexts ==
    {pre \o SectionOfTitlePhrase(cap, N101 \o sub, T17) \o post :
        pre \in Pres, post \in {<<>>}, cap \in BOOLEAN, sub \in Subsections}

\* the sections the phrase is found in: folder and identifier attribute
ExtractSources ==
    {<<Folder35, FormatIdentifier(T35, N101)>>,
     <<Folder10, FormatIdentifier(T10, N101)>>,
     <<Folder10, FormatIdentifier(T10, N102)>>,
     <<Folder01, IdA>>}

ExtractCorpora ==
    {<<XmlFile(src[1], TRUE, <<Section(src[2], text)>>)>> :
        src \in ExtractSources,
        text \in SectionOfTitleTexts \cup RangeTexts \cup USCTexts \cup SubsectionTexts}

InitExtract ==
    /\ corpus \in ExtractCorpora
    /\ dbState = "absent"
    /\ store = <<>>
    /\ ing = IngIdle
    /\ runs = 0
    /\ prevRun = NoRun
    /\ lastRun = NoRun
    /\ req = ReqIdle

NextExtract ==
    \/ build_parse
    \/ create_database_connect
    \/ create_database_table
    \/ create_database_insert
    \/ create_database_commit
    \/ build_report

SpecExtract == InitExtract /\ [][NextExtract]_vars

----------------------------------------------------------------------------
(* normalize_identifier on section strings with and without a suffix *)

MaxSectionLen == 3
MaxGroups == 2

\* the characters section strings are made of
SectionChars == {"5", "a", "A", "(", ")", " "}

RECURSIVE StringsUpTo(_, _)
StringsUpTo(chars, n) ==
    IF n = 0 THEN {<<>>}
    ELSE LET shorter == StringsUpTo(chars, n - 1)
         IN  shorter \cup {Append(w, c) : w \in shorter, c \in chars}

\* parenthesized subsection groups: (a), (2), (A)
SubsectionGroups ==
    {<<"(", "a", ")">>, <<"(", "2", ")">>, <<"(", "A", ")">>}

RECURSIVE GroupSuffixes(_)
GroupSuffixes(n) ==
    IF n = 0 THEN {<<>>}
    ELSE LET shorter == GroupSuffixes(n - 1)
         IN  shorter \cup {w \o g : w \in shorter, g \in SubsectionGroups}

NormalizeCall(title, section, suffix) ==
    [pc |-> "call", op |-> "normalize", title |-> title, section |-> section,
     suffix |-> suffix, plain |-> <<>>, suffixed |-> <<>>]

InitNormalize ==
    /\ corpus = <<>>
    /\ dbState = "absent"
    /\ store = <<>>
    /\ ing = IngIdle
    /\ runs = 0
    /\ prevRun = NoRun
    /\ lastRun = NoRun
    /\ \E title \in {T1, T17}, section \in StringsUpTo(SectionChars, MaxSectionLen), suffix \in GroupSuffixes(MaxGroups) :
          req = NormalizeCall(title, section, suffix)

\* normalize_identifier(title, section)
normalize_plain ==
    /\ req.pc = "call"
    /\ req.op = "normalize"
    /\ req' = [req EXCEPT !.pc = "second",
                          !.plain = normalize_identifier(req.title, req.section)]
    /\ UNCHANGED ingVars

\* normalize_identifier(title, section + suffix)
normalize_suffixed ==
    /\ req.pc = "second"
    /\ req.op = "normalize"
    /\ req' = [req EXCEPT !.pc = "done",
                          !.suffixed = normalize_identifier(req.title,
                                                            req.section \o req.suffix)]
    /\ UNCHANGED ingVars

NextNormalize ==
    \/ normalize_plain
    \/ normalize_suffixed

SpecNormalize == InitNormalize /\ [][NextNormalize]_vars

----------------------------------------------------------------------------
(* Properties of the store *)

Rows(rows) == {rows[i] : i \in 1..Len(rows)}

\* the citations a corpus holds that name the section they stand in
SelfReferences(xml_files) ==
    {<<k, j, n>> \in (1..Len(xml_files)) \X (1..2) \X (1..5) :
        /\ xml_files[k].well_formed
        /\ j <= Len(xml_files[k].sections)
        /\ LET sec == xml_files[k].sections[j]
               found == parse_citations(sec.text, SourceTitle(xml_files[k].folder_name))
           IN  /\ n <= Len(found)
               /\ normalize_identifier(found[n][1], found[n][2]) = sec.identifier}

\* C1: no committed or pending row of the citations table has
\* source_identifier equal to target_identifier.
C1_NoSelfEdge ==
    /\ \A r \in Rows(store) : r.source_identifier # r.target_identifier
    /\ \A r \in Rows(ing.txn) : r.source_identifier # r.target_identifier

\* a run over a corpus with self-references has committed other edges
C1_Witness ==
    /\ lastRun.valid
    /\ SelfReferences(lastRun.input) # {}
    /\ Len(lastRun.rows) > 0
    /\ store = lastRun.rows

\* C2: a run over the same input as the run before it leaves the stored rows,
\* and so their number, exactly as that run left them.
C2_RerunIdempotent ==
    (prevRun.valid /\ lastRun.valid /\ prevRun.input = lastRun.input)
        => /\ lastRun.rows = prevRun.rows
           /\ Len(lastRun.rows) = Len(prevRun.rows)

\* two runs over one corpus that holds citations, duplicates among them
C2_Witness ==
    /\ prevRun.valid /\ lastRun.valid
    /\ prevRun.input = lastRun.input
    /\ Len(ParseAll(lastRun.input)) > Len(lastRun.rows)
    /\ Len(lastRun.rows) > 1

\* C3: a (source_identifier, target_identifier, citation_text) triple is in
\* at most one row, and every citation a completed run extracted is in the
\* store under its own citation_text.
C3_TripleOnceAllTexts ==
    /\ \A i, j \in 1..Len(store) : SameKey(store[i], store[j]) => i = j
    /\ lastRun.valid =>
         \A c \in Rows(ParseAll(lastRun.input)) :
            \E r \in Rows(lastRun.rows) : SameKey(r, c)

\* one source and target stored under two citation texts
C3_Witness ==
    /\ lastRun.valid
    /\ \E r1, r2 \in Rows(store) :
          /\ r1.source_identifier = r2.source_identifier
          /\ r1.target_identifier = r2.target_identifier
          /\ r1.citation_text # r2.citation_text
    /\ \E i, j \in 1..Len(ParseAll(lastRun.input)) :
          i # j /\ ParseAll(lastRun.input)[i] = ParseAll(lastRun.input)[j]

----------------------------------------------------------------------------
(* Properties of a run with documents that fail *)

\* the citations of the documents of a corpus that parse, in corpus order
RECURSIVE GoodCitations(_)
GoodCitations(xml_files) ==
    IF xml_files = <<>> THEN <<>>
    ELSE (IF Head(xml_files).well_formed
          THEN SectionsCitations(SourceTitle(Head(xml_files).folder_name),
                                 Head(xml_files).sections)
          ELSE <<>>)
         \o GoodCitations(Tail(xml_files))

FailedDocuments(xml_files) ==
    {k \in 1..Len(xml_files) : ~xml_files[k].well_formed}

C13_ReportsFailureCount ==
    (lastRun.valid /\ lastRun.input # <<>>) =>
        /\ {"succeeded", "failed"} \subseteq DOMAIN lastRun.report
        /\ lastRun.report.failed = Cardinality(FailedDocuments(lastRun.input))
        /\ lastRun.report.succeeded
              = Len(lastRun.input) - Cardinality(FailedDocuments(lastRun.input))

----------------------------------------------------------------------------
(* Properties of the lookups *)

IdsOf(list) == {list[i].identifier : i \in 1..Len(list)}

CitingRows(rows, identifier) ==
    Cardinality({i \in 1..Len(rows) : rows[i].target_identifier = identifier})

\* C4 as claimed: for every limit, if X is among the identifiers
\* get_sections_cited_by(Y, limit) returns, then Y is among the identifiers
\* get_sections_that_cite(X, limit) returns.
C4_AnyLimit ==
    dbState = "ready" =>
        \A X \in AskedIds, Y \in AskedIds, limit \in DirectLimits :
            X \in IdsOf(get_sections_cited_by(dbState, store, Y, limit).value)
                => Y \in IdsOf(get_sections_that_cite(dbState, store, X, limit).value)

\* C4 amended: if X is among the identifiers get_sections_cited_by(Y, l1)
\* returns, then Y is among the identifiers get_sections_that_cite(X, l2)
\* returns, provided l2 is negative (no limit) or at least the number of
\* stored rows whose target_identifier is X.
C4_WithinLimit ==
    dbState = "ready" =>
        \A X \in AskedIds, Y \in AskedIds, l1 \in DirectLimits, l2 \in DirectLimits :
            (/\ X \in IdsOf(get_sections_cited_by(dbState, store, Y, l1).value)
             /\ (l2 < 0 \/ l2 >= CitingRows(store, X)))
                => Y \in IdsOf(get_sections_that_cite(dbState, store, X, l2).value)

\* a lookup of the sections citing X returned all of its several citing rows
C4_Witness ==
    /\ req.pc = "done"
    /\ req.op = "that_cite"
    /\ dbState = "ready"
    /\ req.outcome.kind = "returned"
    /\ req.limit >= CitingRows(store, req.identifier)
    /\ Len(req.outcome.value) = CitingRows(store, req.identifier)
    /\ Cardinality(IdsOf(req.outcome.value)) >= 2

----------------------------------------------------------------------------
(* Properties of search_citation_path *)

Successors(rows, nodes) ==
    {rows[i].target_identifier :
        i \in {j \in 1..Len(rows) : rows[j].source_identifier \in nodes}}

\* the sections at the end of a walk of exactly k edges from one of nodes
RECURSIVE WalkEnds(_, _, _)
WalkEnds(rows, nodes, k) ==
    IF k = 0 THEN nodes ELSE WalkEnds(rows, Successors(rows, nodes), k - 1)

\* a directed path of between 1 and max_depth edges from source to target
HasPathWithin(rows, source, target, max_depth) ==
    \E k \in 1..max_depth : target \in WalkEnds(rows, {source}, k)

\* C5: no path collected or returned by search_citation_path holds more
\* than max_depth + 1 identifiers.
C5_PathLength ==
    req.op = "path" =>
        /\ \A i \in 1..Len(req.bfs.found_paths) :
              Len(req.bfs.found_paths[i]) <= req.max_depth + 1
        /\ (req.pc = "done" /\ req.outcome.kind = "returned") =>
              \A i \in 1..Len(req.outcome.value) :
                 Len(req.outcome.value[i]) <= req.max_depth + 1

\* a path of exactly max_depth + 1 identifiers returned from a graph with a cycle
C5_Witness ==
    /\ req.pc = "done"
    /\ req.op = "path"
    /\ req.max_depth = 3
    /\ \E i \in 1..Len(req.outcome.value) : Len(req.outcome.value[i]) = 4
    /\ NodeS \in Successors(store, Successors(store, {NodeS}))

\* C6: on an existing store search_citation_path returns the empty list
\* exactly when no directed path of 1..max_depth edges leads from source to
\* target.
C6_EmptyIffNoPath ==
    (req.pc = "done" /\ req.op = "path" /\ dbState = "ready"
        /\ req.outcome.kind = "returned")
        => (req.outcome.value = <<>>
              <=> ~HasPathWithin(store, req.identifier, req.target, req.max_depth))

\* the only paths have max_depth edges, and a section on the way was
\* discovered a second time and not enqueued again
C6_Witness ==
    /\ req.pc = "done"
    /\ req.op = "path"
    /\ req.max_depth = 3
    /\ req.outcome.value # <<>>
    /\ ~HasPathWithin(store, req.identifier, req.target, 2)
    /\ \E i, j \in 1..Len(store) :
          /\ i # j
          /\ store[i].target_identifier = store[j].target_identifier
          /\ store[i].target_identifier \in req.bfs.visited \ {req.identifier}
          /\ store[i].source_identifier \in req.bfs.visited
          /\ store[j].source_identifier \in req.bfs.visited

\* C9: search_citation_path never holds or returns more than MaxPaths
\* paths, runs no iteration of its loop once MaxPaths paths are collected,
\* and otherwise returns only when the queue is empty.
C9_HaltAtMaxPaths ==
    [][req.op = "path" =>
          /\ Len(req'.bfs.found_paths) <= MaxPaths
          /\ (req.pc = "bfs" /\ req'.pc = "bfs")
                => Len(req.bfs.found_paths) < MaxPaths
          /\ (req.pc = "bfs" /\ req'.pc = "done" /\ req'.outcome.kind = "returned")
                => /\ Len(req'.outcome.value) <= MaxPaths
                   /\ (Len(req.bfs.found_paths) = MaxPaths \/ req.bfs.queue = <<>>)]_vars

\* the search returned MaxPaths paths and left entries in the queue
C9_Witness ==
    /\ req.pc = "done"
    /\ req.op = "path"
    /\ Len(req.outcome.value) = MaxPaths
    /\ req.bfs.queue # <<>>

----------------------------------------------------------------------------
(* Properties of the endpoints *)

\* the outcome is the exception e
Answered(outcome, e) == outcome.kind = "raised" /\ outcome.value = e.value

\* C7 as claimed: a stats or path query that found no store ends in an
\* outcome no query on an existing store can end in.
C7_UnavailableDistinct ==
    (/\ req.pc = "done"
     /\ req.op \in {"stats", "path"}
     /\ (req.saw_absent > 0 \/ Answered(req.outcome, Http503)))
        => \/ Answered(req.outcome, Http503)
           \/ (req.op = "stats" /\ req.outcome.kind = "returned"
                 /\ req.outcome.value = StatsErrorDict)

\* C10 as claimed: a request with max_depth or limit above the ceiling is
\* served, with the value clamped to the ceiling.
C10_ClampedAndServed ==
    (/\ req.pc = "done"
     /\ req.via = "http"
     /\ (req.max_depth > DepthCeiling \/ req.limit > LimitCeiling))
        => ~Answered(req.outcome, Http422)

\* C10 amended: an endpoint request whose max_depth is outside 1..5 or whose
\* limit is outside 1..50 is rejected (HTTP 422) before any read of the
\* store; so a search run for an endpoint uses a depth of at most 5 and a
\* lookup a limit of at most 50.
C10_RejectedNotClamped ==
    (req.via = "http" /\ req.op \in {"related", "path"}) =>
        /\ (req.max_depth > DepthCeiling \/ req.limit > LimitCeiling)
              => /\ req.pc = "done"
                 /\ Answered(req.outcome, Http422)
                 /\ req.reads = 0
                 /\ req.conn_calls = 0
        /\ (req.conn_calls > 0 \/ req.reads > 0)
              => /\ req.max_depth <= DepthCeiling
                 /\ req.limit <= LimitCeiling

\* a path request above the ceiling was rejected while the store was there
C10_Witness ==
    /\ req.pc = "done"
    /\ req.via = "http"
    /\ req.op = "path"
    /\ req.max_depth = DepthCeiling + 1
    /\ Answered(req.outcome, Http422)
    /\ dbState = "ready"
    /\ Len(store) > 0

\* the canonical form /us/usc/t<digits>/s<digits><optional letter>
WellFormedIdentifier(identifier) ==
    /\ identifier # <<>>
    /\ Head(identifier) = "/us/usc/t"
    /\ DigitRun(Tail(identifier)) # <<>>
    /\ SourceSectionFrom(identifier) # <<>>
    /\ identifier = FormatIdentifier(DigitRun(Tail(identifier)),
                                     SourceSectionFrom(identifier))

\* C11 as claimed: a related or path request whose title and section do not
\* form a well-formed identifier, or whose max_depth or limit is out of
\* range, performs no read of the store and ends rejected (the answer is an
\* HTTP error, whichever check produced it).
C11_InvalidRejected ==
    (/\ req.via = "http"
     /\ req.op \in {"related", "path"}
     /\ \/ ~WellFormedIdentifier(req.identifier)
        \/ (req.op = "path" /\ ~WellFormedIdentifier(req.target))
        \/ (req.op = "related" /\ ~ValidLimit(req.limit))
        \/ (req.op = "path" /\ ~ValidDepth(req.max_depth)))
        => /\ req.reads = 0
           /\ req.pc = "done" => (\/ Answered(req.outcome, Http422)
                                   \/ Answered(req.outcome, Http503))

----------------------------------------------------------------------------
(* Properties of citation_db_exists *)

\* C14 as claimed: citation_db_exists() is false before any run, true after
\* a completed run over a corpus with files (also one that stored no edge),
\* and whenever a reader can see it true the citations table is there and
\* no edge of a run in progress is waiting for its commit.
C14_ExistsIffBuilt ==
    /\ (runs = 0 /\ ing.pc = "idle") => ~citation_db_exists(dbState)
    /\ (lastRun.valid /\ lastRun.input # <<>>) => citation_db_exists(dbState)
    /\ citation_db_exists(dbState) =>
          /\ dbState = "ready"
          /\ ing.pc \notin {"insert", "commit"}

----------------------------------------------------------------------------
(* Properties of get_citation_stats *)

Targets(rows) == {rows[i].target_identifier : i \in 1..Len(rows)}

Min(a, b) == IF a < b THEN a ELSE b

\* C15: most_cited holds at most 10 targets, each once and with the number
\* of stored rows that have it as target_identifier, in non-increasing order
\* of that count, and no target left out has a larger count than one
\* included; for the example store it is X with 8 before Y with 1.
C15_MostCitedRanking ==
    (req.pc = "done" /\ req.op = "stats" /\ req.outcome.kind = "returned"
        /\ "most_cited" \in DOMAIN req.outcome.value)
        => LET mc == req.outcome.value.most_cited
           IN  /\ Len(mc) = Min(TopTen, Cardinality(Targets(store)))
               /\ \A i, j \in 1..Len(mc) : mc[i].identifier = mc[j].identifier => i = j
               /\ \A i \in 1..Len(mc) : mc[i].count = CitingRows(store, mc[i].identifier)
               /\ \A i, j \in 1..Len(mc) : i < j => mc[i].count >= mc[j].count
               /\ \A t \in Targets(store) \ IdsOf(mc) :
                     \A i \in 1..Len(mc) : CitingRows(store, t) <= mc[i].count
               /\ store = ExampleStore =>
                     /\ Len(mc) = 2
                     /\ mc[1].identifier = NodeX /\ mc[1].count = 8
                     /\ mc[2].identifier = NodeE /\ mc[2].count = 1

\* twelve targets, two of them with equal counts at the cut: the list holds
\* ten and leaves out a target that has the count of the last one in it
C15_Witness ==
    /\ req.pc = "done"
    /\ req.op = "stats"
    /\ Cardinality(Targets(store)) = StatTargets
    /\ Len(req.outcome.value.most_cited) = TopTen
    /\ \E t \in Targets(store) \ IdsOf(req.outcome.value.most_cited) :
          CitingRows(store, t) = req.outcome.value.most_cited[TopTen].count

----------------------------------------------------------------------------
(* Properties of the extraction of one phrase *)

\* a title number without leading zeros
RECURSIVE StripZeros(_)
StripZeros(t) == IF Len(t) > 1 /\ Head(t) = "0" THEN StripZeros(Tail(t)) ELSE t

\* the section a completed run read, and the folder of its file
RunSection == lastRun.input[1].sections[1]
RunFolderTitle == SourceTitle(lastRun.input[1].folder_name)

C17_RangeOneEdge ==
    lastRun.valid =>
        \A pre \in Pres, plural \in BOOLEAN, N \in {N102, N5}, conj \in {W_through, W_to, W_and} :
            RunSection.text = pre \o RangePhrase(plural, N, conj, N105)
                => /\ Len(lastRun.rows) = 1
                   /\ lastRun.rows[1].target_title = RunFolderTitle
                   /\ lastRun.rows[1].target_section = N

\* C17 amended: such a run has stored exactly one row, from the section to
\* /us/usc/t<title of its folder>/sN with target_section N and the whole
\* range phrase as citation_text, and no row to M or a section between;
\* unless that identifier is the section's own identifier, in which case the
\* reference is a self-citation and the run has stored nothing.
C17_RangeStartUnlessSelf ==
    lastRun.valid =>
        \A pre \in Pres, plural \in BOOLEAN, N \in {N102, N5}, conj \in {W_through, W_to, W_and} :
            RunSection.text = pre \o RangePhrase(plural, N, conj, N105)
                => IF FormatIdentifier(RunFolderTitle, N) = RunSection.identifier
                   THEN lastRun.rows = <<>>
                   ELSE /\ Len(lastRun.rows) = 1
                        /\ lastRun.rows[1].source_identifier = RunSection.identifier
                        /\ lastRun.rows[1].target_title = RunFolderTitle
                        /\ lastRun.rows[1].target_section = N
                        /\ lastRun.rows[1].target_identifier
                              = FormatIdentifier(RunFolderTitle, N)
                        /\ lastRun.rows[1].citation_text
                              = RangePhrase(plural, N, conj, N105)

\* "sections 102 through 105 of this title" in section 101 of title 10 has
\* been ingested and its one edge, to section 102, is committed
C17_Witness ==
    /\ lastRun.valid
    /\ RunSection.identifier = FormatIdentifier(T10, N101)
    /\ RunSection.text = RangePhrase(TRUE, N102, W_through, N105)
    /\ Len(store) = 1
    /\ store[1].target_identifier = FormatIdentifier(T10, N102)

\* C18 as claimed: a completed run over a section whose text holds the
\* phrase "T U.S.C. N", "T U.S.C. <section sign> N" or "T USC N" has stored a
\* row from that section with target_title T, target_section N and the
\* phrase as citation_text.
C18_USCExtracted ==
    lastRun.valid =>
        \A pre \in Pres, form \in USCForms, N \in {N101, N102} :
            RunSection.text = pre \o USCPhrase(T17, form, N)
                => \E r \in Rows(lastRun.rows) :
                      /\ r.source_identifier = RunSection.identifier
                      /\ r.target_title = T17
                      /\ r.target_section = N
                      /\ r.target_identifier = FormatIdentifier(T17, N)
                      /\ r.citation_text = USCPhrase(T17, form, N)

----------------------------------------------------------------------------
(* Properties of normalize_identifier *)

\* C19 as claimed: for every title and section string, appending any
\* sequence of parenthesized subsection groups to the section leaves
\* normalize_identifier's result unchanged.
C19_SuffixIgnored ==
    (req.op = "normalize" /\ req.pc = "done") => req.suffixed = req.plain

----------------------------------------------------------------------------
(* Properties of the queries as a whole *)

----------------------------------------------------------------------------
(* Properties of what ingestion persists for one source and target *)

\* the rows of one (source_identifier, target_identifier) pair
PairRows(rows, source, target) ==
    {i \in 1..Len(rows) : /\ rows[i].source_identifier = source
                          /\ rows[i].target_identifier = target}

\* the citation texts of one pair
PairTexts(rows, source, target) ==
    {rows[i].citation_text : i \in PairRows(rows, source, target)}

\* the rows in the store when the last run began
RowsBefore == IF prevRun.valid THEN prevRun.rows ELSE <<>>

\* C21 as claimed: after a completed run, of the citations with one source
\* and one target only one row is in the store.
C21_PairOnce ==
    lastRun.valid =>
        \A c \in Rows(ParseAll(lastRun.input)) :
            Cardinality(PairRows(lastRun.rows, c.source_identifier,
                                 c.target_identifier)) = 1

\* C21 amended: after a completed run the store holds, for every source and
\* target the run extracted, one row for each distinct citation_text of that
\* pair, extracted by this run or stored before it; only the printed number
\* of unique relationships counts one per pair.
C21_OneRowPerText ==
    lastRun.valid =>
        LET all_citations == ParseAll(lastRun.input)
        IN  /\ \A c \in Rows(all_citations) :
                  Cardinality(PairRows(lastRun.rows, c.source_identifier,
                                       c.target_identifier))
                     = Cardinality(PairTexts(all_citations, c.source_identifier,
                                             c.target_identifier)
                                   \cup PairTexts(RowsBefore, c.source_identifier,
                                                  c.target_identifier))
            /\ lastRun.input # <<>> =>
                  lastRun.report.unique_relationships
                     = Cardinality({<<c.source_identifier, c.target_identifier>> :
                                       c \in Rows(all_citations)})

\* title 1 section 5 names title 17 section 101 three times under two texts:
\* two rows of that pair are committed
C21_Witness ==
    /\ lastRun.valid
    /\ store = lastRun.rows
    /\ Cardinality(PairRows(ParseAll(lastRun.input), IdA, IdB)) = 3
    /\ Cardinality(PairTexts(ParseAll(lastRun.input), IdA, IdB)) = 2
    /\ Cardinality(PairRows(store, IdA, IdB)) = 2

----------------------------------------------------------------------------
(* Properties of the frontier of search_citation_path *)

\* the identifiers at the ends of the entries of a queue
QueueEnds(queue) == {queue[i][Len(queue[i])] : i \in 1..Len(queue)}

\* the entries an iteration appended to the queue it popped the head of
Enqueued(before, after) == SubSeq(after, Len(before), Len(after))

\* C22: a call starts with the source visited and alone in the queue; an
\* iteration of the loop appends only entries that end in identifiers not
\* visited before it, no two in the same identifier, and visited grows by
\* exactly those identifiers; so the entries waiting in the queue end in
\* distinct visited identifiers.
C22_EnqueuedOnce ==
    [][/\ (req.pc = "call" /\ req'.pc = "bfs") =>
              /\ req'.bfs.visited = {req.identifier}
              /\ req'.bfs.queue = <<<<req.identifier>>>>
       /\ (req.pc = "bfs" /\ req'.pc = "bfs") =>
              LET added == Enqueued(req.bfs.queue, req'.bfs.queue)
              IN  /\ req'.bfs.queue = Tail(req.bfs.queue) \o added
                  /\ QueueEnds(added) \cap req.bfs.visited = {}
                  /\ Cardinality(QueueEnds(added)) = Len(added)
                  /\ req'.bfs.visited = req.bfs.visited \cup QueueEnds(added)
                  /\ Cardinality(QueueEnds(req'.bfs.queue)) = Len(req'.bfs.queue)
                  /\ QueueEnds(req'.bfs.queue) \subseteq req'.bfs.visited]_vars

\* a search to depth 3 has returned from a graph in which a visited section
\* is cited by two visited sections and the source is cited back
C22_Witness ==
    /\ req.pc = "done"
    /\ req.op = "path"
    /\ req.max_depth = 3
    /\ req.identifier = NodeS
    /\ req.target = NodeT
    /\ {NodeS, NodeA, NodeB} \subseteq req.bfs.visited
    /\ \E r \in Rows(store) : r.source_identifier = NodeA /\ r.target_identifier = NodeS
    /\ \E r \in Rows(store) : r.source_identifier = NodeA /\ r.target_identifier = NodeB
    /\ \E r \in Rows(store) : r.source_identifier = NodeS /\ r.target_identifier = NodeB

\* the identifiers of a path
PathNodes(path) == {path[i] : i \in 1..Len(path)}

\* the target stands at the end of a path and nowhere before it
TargetOnlyLast(path, target) ==
    /\ path[Len(path)] = target
    /\ \A i \in 1..(Len(path) - 1) : path[i] # target

\* C23: in a search whose source is not its target, no entry of the queue
\* holds the target, and every path collected or returned holds it as its
\* last element only.
C23_TargetNeverEnqueued ==
    (req.op = "path" /\ req.pc \in {"bfs", "done"} /\ req.identifier # req.target)
        => /\ \A i \in 1..Len(req.bfs.queue) :
                 req.target \notin PathNodes(req.bfs.queue[i])
           /\ req.target \notin req.bfs.visited
           /\ \A i \in 1..Len(req.bfs.found_paths) :
                 TargetOnlyLast(req.bfs.found_paths[i], req.target)
           /\ req.outcome.kind = "returned" =>
                 \A i \in 1..Len(req.outcome.value) :
                    TargetOnlyLast(req.outcome.value[i], req.target)

\* the target was reached by a hop from the source and by a hop from another
\* section, it cites sections itself, and the search has returned both paths
C23_Witness ==
    /\ req.pc = "done"
    /\ req.op = "path"
    /\ req.identifier = NodeS
    /\ req.target = NodeT
    /\ <<NodeS, NodeT>> \in PathNodes(req.outcome.value)
    /\ <<NodeS, NodeA, NodeT>> \in PathNodes(req.outcome.value)
    /\ \E r \in Rows(store) : r.source_identifier = NodeT /\ r.target_identifier = NodeB
    /\ NodeB \notin req.bfs.visited

\* C24: every search_citation_path call that has begun its loop returns,
\* whatever the stored edges (cycles among them), whether or not the source
\* is the target, and whatever max_depth.
C24_Terminates ==
    (req.op = "path" /\ req.pc = "bfs") ~> (req.op = "path" /\ req.pc = "done")

\* a search from a section to itself has returned from a graph in which the
\* section and another cite each other
C24_Witness ==
    /\ req.pc = "done"
    /\ req.op = "path"
    /\ req.identifier = NodeS
    /\ req.target = NodeS
    /\ req.max_depth = MaxDepthArg
    /\ \E r \in Rows(store) : r.source_identifier = NodeS /\ r.target_identifier = NodeA
    /\ \E r \in Rows(store) : r.source_identifier = NodeA /\ r.target_identifier = NodeS
    /\ req.outcome.value # <<>>
    /\ req.reads > 1

\* no walk of 1..k edges leads from source to target
NoWalkWithin(rows, source, target, k) ==
    \A n \in 1..k : target \notin WalkEnds(rows, {source}, n)

\* C25 as claimed: the paths search_citation_path has collected, and those
\* it returns, stand in non-decreasing order of length, and no directed path
\* of one or more edges from the source to the target in the stored graph
\* has fewer edges than the first of them.
C25_ShortestFirst ==
    (req.op = "path" /\ req.pc \in {"bfs", "done"}) =>
        LET found == req.bfs.found_paths
        IN  /\ \A i, j \in 1..Len(found) : i < j => Len(found[i]) <= Len(found[j])
            /\ found # <<>> =>
                  NoWalkWithin(store, req.identifier, req.target, Len(found[1]) - 2)
            /\ (req.pc = "done" /\ req.outcome.kind = "returned") =>
                  req.outcome.value = found

\* C25 amended: the paths stand in non-decreasing order of length, and no
\* directed path of one or more edges from the source to the target in the
\* graph that was stored when the call began has fewer edges than the first
\* of them; when no commit has landed since the call began, that graph is
\* the stored graph.
C25_ShortestOfGraphAtCall ==
    (req.op = "path" /\ req.pc \in {"bfs", "done"}) =>
        LET found == req.bfs.found_paths
        IN  /\ \A i, j \in 1..Len(found) : i < j => Len(found[i]) <= Len(found[j])
            /\ found # <<>> =>
                  NoWalkWithin(req.rows_at_call, req.identifier, req.target,
                               Len(found[1]) - 2)
            /\ (found # <<>> /\ store = req.rows_at_call) =>
                  NoWalkWithin(store, req.identifier, req.target, Len(found[1]) - 2)
            /\ (req.pc = "done" /\ req.outcome.kind = "returned") =>
                  req.outcome.value = found

\* a search from 17/102 to 17/101 read the citations of 17/102 before a
\* commit and those of 1/5 after it: it has returned the one path through
\* 1/5 although 17/102 now cites 17/101 directly
C25_Witness ==
    /\ req.pc = "done"
    /\ req.op = "path"
    /\ req.identifier = IdC
    /\ req.target = IdB
    /\ req.outcome.kind = "returned"
    /\ req.outcome.value = <<<<IdC, IdA, IdB>>>>
    /\ PairRows(store, IdC, IdB) # {}
    /\ PairRows(req.rows_at_call, IdC, IdB) = {}

\* a path from source to target along rows
IsPathIn(rows, path, source, target) ==
    /\ Len(path) >= 2
    /\ path[1] = source
    /\ path[Len(path)] = target
    /\ \A i \in 1..(Len(path) - 1) : PairRows(rows, path[i], path[i + 1]) # {}

\* C26: every path search_citation_path has collected or returned leads
\* from the source to the target along edges that are in the store, also
\* when a commit landed between two of its queries, and no two of the paths
\* are equal.
C26_PathsAreStoredPaths ==
    (req.op = "path" /\ req.pc \in {"bfs", "done"}) =>
        LET found == req.bfs.found_paths
        IN  /\ \A i \in 1..Len(found) :
                  IsPathIn(store, found[i], req.identifier, req.target)
            /\ \A i, j \in 1..Len(found) : found[i] = found[j] => i = j
            /\ (req.pc = "done" /\ req.outcome.kind = "returned") =>
                  req.outcome.value = found

\* a returned path of two edges whose second edge was committed after the
\* call began, next to a direct path over an edge stored under two texts
C26_Witness ==
    /\ req.pc = "done"
    /\ req.op = "path"
    /\ req.outcome.kind = "returned"
    /\ req.outcome.value = <<<<IdC, IdB>>, <<IdC, IdA, IdB>>>>
    /\ req.rows_at_call # <<>>
    /\ PairRows(req.rows_at_call, IdA, IdB) = {}
    /\ Cardinality(PairRows(store, IdC, IdB)) = 2

----------------------------------------------------------------------------
(* Properties of stored identifiers *)

\* /us/usc/t<digits>/s<section>, the section free of parentheses
CanonicalIdentifier(identifier) ==
    /\ Len(identifier) >= 4
    /\ identifier[1] = "/us/usc/t"
    /\ \E k \in 3..(Len(identifier) - 1) :
          /\ identifier[k] = "/s"
          /\ \A i \in 2..(k - 1) : identifier[i] \in Digits
          /\ \A i \in (k + 1)..Len(identifier) : identifier[i] \notin {"(", ")", "/s", "/us/usc/t"}

\* C27 as claimed: every target_identifier committed or pending is of the
\* form /us/usc/t{title}/s{section} with no parenthesized group in
\* {section}.
C27_CanonicalTargets ==
    /\ \A r \in Rows(store) : CanonicalIdentifier(r.target_identifier)
    /\ \A r \in Rows(ing.txn) : CanonicalIdentifier(r.target_identifier)

\* the title digits of an identifier /us/usc/t<title>/s<section>
TitleOf(identifier) ==
    IF identifier # <<>> /\ Head(identifier) = "/us/usc/t"
    THEN DigitRun(Tail(identifier))
    ELSE <<>>

\* C28 as claimed: a row extracted from a "section N of this title" phrase
\* has as target_identifier the identifier of section N in the title of the
\* section it was found in, the string that section's own rows carry as
\* source_identifier; a phrase naming the section it stands in is therefore
\* a self-citation and leaves no row.
C28_ThisTitleSameKey ==
    \A r \in Rows(store) \cup Rows(ing.txn) :
        Contains(lower(r.citation_text), S_of_this_title)
            => /\ r.target_identifier
                    = FormatIdentifier(TitleOf(r.source_identifier), r.target_section)
               /\ r.target_section # SourceSectionFrom(r.source_identifier)

----------------------------------------------------------------------------
(* Properties of the result of get_related_sections *)

\* the rows of the store whose source_identifier is the given one
CitedRows(rows, identifier) ==
    Cardinality({i \in 1..Len(rows) : rows[i].source_identifier = identifier})

\* C29: in a dict get_related_sections returned, total_cited_by and
\* total_cites are the lengths of the cited_by and cites lists, and for a
\* limit of 0 or more neither list is longer than limit, however many
\* matching rows the store holds.
C29_TotalsAreLengths ==
    (req.op = "related" /\ req.pc = "done" /\ req.outcome.kind = "returned")
        => LET result == req.outcome.value
           IN  /\ result.total_cited_by = Len(result.cited_by)
               /\ result.total_cites = Len(result.cites)
               /\ req.limit >= 0 =>
                     /\ Len(result.cited_by) <= req.limit
                     /\ Len(result.cites) <= req.limit
                     /\ result.total_cited_by <= req.limit
                     /\ result.total_cites <= req.limit

\* get_related_sections(X, 1) has returned one entry in each direction from
\* a store with several rows citing X and several rows of X citing others
C29_Witness ==
    /\ req.op = "related"
    /\ req.pc = "done"
    /\ req.outcome.kind = "returned"
    /\ req.limit = 1
    /\ req.outcome.value.total_cited_by = 1
    /\ req.outcome.value.total_cites = 1
    /\ CitingRows(store, req.identifier) > 1
    /\ CitedRows(store, req.identifier) > 1

----------------------------------------------------------------------------
(* Properties of the store across runs *)

\* every row of before stands unaltered, at its place, in after
KeepsRows(before, after) ==
    /\ Len(before) <= Len(after)
    /\ \A i \in 1..Len(before) : after[i] = before[i]

\* C30: no step of a run removes or alters a committed row: the rows a run
\* has pending and the rows a step commits hold every row committed before,
\* unaltered, and the rows a completed run leaves hold every row the run
\* before it left, also when the corpus changed between the two runs.
C30_RowsNeverLost ==
    [][/\ KeepsRows(store, store')
       /\ (ing'.txn = <<>> \/ KeepsRows(store', ing'.txn))
       /\ (prevRun'.valid /\ lastRun'.valid) =>
             Rows(prevRun'.rows) \subseteq Rows(lastRun'.rows)]_vars

\* a second run over a changed corpus has completed and the store still
\* holds an edge that no text of that corpus yields
C30_Witness ==
    /\ prevRun.valid /\ lastRun.valid
    /\ prevRun.input # lastRun.input
    /\ lastRun.input # <<>>
    /\ Len(lastRun.rows) > Len(prevRun.rows)
    /\ store = lastRun.rows
    /\ \E r \in Rows(store) :
          \A c \in Rows(ParseAll(lastRun.input)) : ~SameKey(r, c)

====
